---- MODULE Spec2Model ----
(***************************************************************************)
(* A model of the PDF -> rendered-bundle engine (crate ode-core), of the   *)
(* job service around it (crate ode-api) and of the operations their      *)
(* contract speaks about.  The module holds several state machines over    *)
(* one set of variables:                                                   *)
(*                                                                         *)
(*   Spec       convert_pdf: parse, page loop, font extraction             *)
(*   SpecDeref  PdfRefResolver::dereference / parse_object_at_offset       *)
(*   SpecTree   PageTreeParser::traverse_page_tree / parse_pages_node      *)
(*   SpecXObj   PageTreeParser::extract_xobjects                           *)
(*   SpecRender render_pdf_page / render_form_xobject (q, Q, Do)           *)
(*   SpecRange  the page-range arithmetic and page loop of convert_pdf     *)
(*   SpecParse  parse_pdf with its fallbacks, then convert_pdf, twice      *)
(*   SpecText   TextExtractor under the Tj/TJ, BT/ET and Do operators      *)
(*   SpecXref   PdfParser::find_and_parse_xref and follow_prev_chain       *)
(*   SpecZip    ZipBombDetector::check_buffer                              *)
(*   SpecBox    MediaBox and CropBox in parse_pages_node and parse_page    *)
(*   SpecCover  CoveredTextDetector next to the loop of render_pdf_page    *)
(*   SpecHook   WebhookService::send_webhook (crate ode-api)               *)
(*   SpecQueue  TaskQueue under concurrent submit_conversion requests      *)
(*   SpecLimit  RateLimiter::check_rate_limit under concurrent requests    *)
(*   SpecAuth   api_key_middleware next to Database::revoke_api_key        *)
(*   SpecGs     the graphics state of render_pdf_page under q and Q        *)
(*   SpecSpan   TextExtractor::update_state and add_text (Tf, rg, Tm, Tj)  *)
(*   SpecBg     the background detector of render_pdf_page (re, f)         *)
(*   SpecContent ContentStreamParser::parse, token by token                *)
(*                                                                         *)
(* A machine that is not running keeps its variables at their idle value.  *)
(***************************************************************************)
EXTENDS Integers, Sequences, FiniteSets, TLC

VARIABLES
    \* ---- convert_pdf (lib.rs) ----
    data,            \* the input file: header validity and its pages
    config,          \* ConversionConfig: page_range and timeout_ms
    pc,              \* position of convert_pdf
    document,        \* PdfDocument.pages as parse_pdf built them
    page_id,         \* loop variable of `for page_id in start_page..end_page`
    output_bundle,   \* OutputBundle { pages, fonts }
    outcome,         \* "running", "Ok", an "Err_*" kind
    elapsed,         \* TRUE once the deadline of config.timeout_ms has passed
    late_boundary,   \* a page was rendered past a boundary the deadline preceded
    inflated,        \* the streams decompressed so far: {[clen, dlen]}
    \* ---- dereference (parser/mod.rs) ----
    objects,         \* object table of the file: id -> object
    deref_stack,     \* active dereference calls, innermost last
    deref_result,    \* "running", "Some", "None", "panic", "stack_overflow"
    overflow_checks, \* the build: TRUE panics on integer overflow, FALSE wraps
    \* ---- page tree (parser/page_tree.rs) ----
    tree,            \* page-tree nodes: id -> [type, kids]
    tree_stack,      \* active traverse_page_tree calls: [node, depth, kid]
    tree_pages,      \* `pages`: the Page leaves collected so far
    tree_result,     \* "running", "Ok", "Err"
    tree_visits,     \* deepest `depth` at which a node was dereferenced
    tree_bundle,     \* the page range and what each page of the bundle shows
    \* ---- extract_xobjects (parser/page_tree.rs) ----
    forms,           \* XObject streams: id -> [subtype, xobjects]; 0 is the page
    xobj_stack,      \* active extract_xobjects calls: [owner, next]
    xobj_result,     \* "running", "returned", "stack_overflow"
    \* ---- interpreter (renderer/mod.rs) ----
    form_tree,       \* length of the chain of nested FormXObject values
    frames,          \* active render frames, the page's first: [ops, state_stack, ctm]
    form_ops,        \* the operators of each form's content stream
    render_result,   \* "running", "Ok"
    \* ---- page range (lib.rs) ----
    range_in,        \* [a, b, n]: page_range and document.num_pages()
    range_pc,        \* "start", "loop", "done"
    range_page_id,   \* loop variable
    range_end,       \* end_page
    range_pages,     \* len(output_bundle.pages)
    range_result,    \* "running", "Ok", "panic"
    \* ---- parse_pdf and convert_pdf, called twice (parser/mod.rs, lib.rs) ----
    parse_file,      \* the file: its xref sections and the /Root of its trailer
    parse_pc,        \* position of the running call: "xref", "pages", "render", "done"
    parse_xref,      \* XRef.entries of the running call, in the order kept
    parse_doc,       \* PdfDocument.pages of the running call
    parse_bundles,   \* what the finished calls returned
    \* ---- TextExtractor (renderer/text.rs, renderer/mod.rs) ----
    text_extractor,  \* TextExtractor: segments and current_segment
    text_seen,       \* number of Tj/TJ operators met so far
    text_ops,        \* number of operators interpreted
    text_pc,         \* "idle", "ops", "done"
    text_spans,      \* RenderedPage.text_spans
    \* ---- follow_prev_chain (parser/object_parser.rs) ----
    xref_file,       \* the xref sections of the file by offset, and startxref
    xref_pc,         \* "idle", "start", "loop", "done", "err"
    xref_table,      \* self.xref: the entries and the /Prev of its trailer
    xref_visited,    \* `visited` of follow_prev_chain
    xref_parsed,     \* the offsets parse_xref_at succeeded on, in order
    \* ---- ZipBombDetector::check_buffer (util/zip_bomb.rs) ----
    zip_input,       \* data.len(), suspected_compressed and self.max_ratio
    zip_checks,      \* the build: TRUE panics on integer overflow, FALSE wraps
    zip_result,      \* "idle", "running", "Ok", "Err_ZipBomb", "panic"
    \* ---- MediaBox and CropBox (parser/page_tree.rs) ----
    box_path,        \* the nodes from the root Pages node down to a page
    box_depth,       \* how many nodes of the path were parsed
    box_inherited,   \* InheritedProps handed down: mediabox and cropbox
    box_page,        \* width and height of the PdfPage, once parse_page has made it
    \* ---- covered text (render/covered_text.rs, renderer/mod.rs) ----
    cover_config,    \* config.correct_text_visibility
    cover_ops,       \* the drawing operations of the page, in paint order
    cover_next,      \* index of the operation the interpreter is at
    cover_spans,     \* the characters in the output, by operation index
    cover_pc,        \* "idle", "loop", "done"
    \* ---- WebhookService::send_webhook (ode-api webhooks.rs) ----
    hook_pc,         \* "idle", "attempt", "sleep", "done"
    hook_attempt,    \* `attempt`
    hook_backoff,    \* `backoff`, in ms
    hook_log,        \* what the endpoint answered to each delivery attempt
    hook_slept,      \* the delays slept between attempts, in ms
    hook_result,     \* "running", "Ok", an "Err_*" kind
    \* ---- work queue (ode-api task_queue.rs, routes.rs) ----
    queue_reqs,      \* position of each submit_conversion request
    queue_jobs,      \* ids of the rows of table `jobs`
    queue_list,      \* the Redis list ode:conversion:queue, head first
    queue_log,       \* history: job created, id enqueued, id handed out
    \* ---- RateLimiter (ode-api rate_limit.rs) ----
    rl_config,       \* max_requests and window_duration, in clock ticks
    rl_now,          \* Instant::now()
    rl_entries,      \* `entries`: client key -> [count, window_start]
    rl_lock,         \* the call that holds the write lock of `entries`, or 0
    rl_calls,        \* the check_rate_limit calls: key, position, locals
    rl_log,          \* history: [key, at, allowed] of each call that returned
    \* ---- API keys (ode-api auth.rs, db.rs) ----
    auth_keys,       \* table api_keys: id -> [is_active]; the hash of row i verifies key i
    auth_revoked,    \* history: the ids revoke_api_key was called on
    auth_reqs,       \* the requests: header, position, db_keys, result
    \* ---- graphics state under q and Q (renderer/mod.rs, render/state.rs) ----
    gs_state,        \* `graphics_state`
    gs_ctm,          \* `ctm`
    gs_text_matrix,  \* `text_matrix`
    gs_font_name,    \* `current_font_name`
    gs_stack,        \* `state_stack`, top last
    gs_count,        \* operators interpreted so far
    gs_marks,        \* history: what every field was at each open q, innermost last
    gs_restored,     \* history: the fields after the last Q and at its matching q
    \* ---- span merging (renderer/text.rs, renderer/mod.rs) ----
    span_gs,         \* the interpreter: font name, graphics_state, text position
    span_extractor,  \* TextExtractor: current_segment, current_state, last_position
    span_count,      \* operators interpreted so far
    span_emitted,    \* history: each text emission and the segment it went to
    \* ---- background detection (renderer/mod.rs) ----
    bg_fill_color,   \* graphics_state.fill_color
    bg_ctm,          \* ctm.a and ctm.d, in halves
    bg_pending_rect, \* `pending_rect`: width and height, or <<>>
    bg_color,        \* `background_color`, or <<>>
    bg_count,        \* operators interpreted so far
    bg_text_shown,   \* history: a Tj or TJ was interpreted
    bg_fills,        \* history: each filled rectangle: size, ctm, colour, text shown before
    \* ---- ContentStreamParser::parse (parser/content_stream.rs) ----
    cs_seen,         \* the tokens of the stream read so far
    cs_operands,     \* self.operands
    cs_text,         \* self.text: <<>> or <<string>>
    cs_font_name,    \* self.current_font_name: <<>> or <<name>>
    cs_ops           \* `ops`: the ParsedOp values emitted so far

varsConvert == <<data, config, pc, document, page_id, output_bundle, outcome,
                 elapsed, late_boundary, inflated>>
varsDeref   == <<objects, deref_stack, deref_result, overflow_checks>>
varsTree    == <<tree, tree_stack, tree_pages, tree_result, tree_visits,
                 tree_bundle>>
varsXObj    == <<forms, xobj_stack, xobj_result>>
varsRender  == <<form_tree, frames, form_ops, render_result>>
varsRange   == <<range_in, range_pc, range_page_id, range_end, range_pages,
                 range_result>>
varsParse == <<parse_file, parse_pc, parse_xref, parse_doc, parse_bundles>>
varsText == <<text_extractor, text_seen, text_ops, text_pc, text_spans>>
varsXref == <<xref_file, xref_pc, xref_table, xref_visited, xref_parsed>>
varsZip == <<zip_input, zip_checks, zip_result>>
varsBox == <<box_path, box_depth, box_inherited, box_page>>
varsCover == <<cover_config, cover_ops, cover_next, cover_spans, cover_pc>>
varsHook == <<hook_pc, hook_attempt, hook_backoff, hook_log, hook_slept, hook_result>>
varsQueue == <<queue_reqs, queue_jobs, queue_list, queue_log>>
varsLimit == <<rl_config, rl_now, rl_entries, rl_lock, rl_calls, rl_log>>
varsAuth == <<auth_keys, auth_revoked, auth_reqs>>
varsGs == <<gs_state, gs_ctm, gs_text_matrix, gs_font_name, gs_stack, gs_count, gs_marks, gs_restored>>
varsSpan == <<span_gs, span_extractor, span_count, span_emitted>>
varsBg == <<bg_fill_color, bg_ctm, bg_pending_rect, bg_color, bg_count, bg_text_shown, bg_fills>>
varsContent == <<cs_seen, cs_operands, cs_text, cs_font_name, cs_ops>>
vars == <<varsConvert, varsDeref, varsTree, varsXObj, varsRender, varsRange,
          varsParse, varsText, varsXref, varsZip, varsBox, varsCover,
          varsHook, varsQueue, varsLimit, varsAuth, varsGs, varsSpan, varsBg,
          varsContent>>

----------------------------------------------------------------------------
(* Idle values.                                                            *)

IdleConvert ==
    /\ data = [header |-> FALSE, pages |-> <<>>]
    /\ config = [page_range |-> <<1, 1>>, timeout_ms |-> FALSE]
    /\ pc = "idle"
    /\ document = <<>>
    /\ page_id = 0
    /\ output_bundle = [pages |-> <<>>, fonts |-> <<>>]
    /\ outcome = "idle"
    /\ elapsed = FALSE
    /\ late_boundary = FALSE
    /\ inflated = {}

IdleDeref ==
    /\ objects = <<>>
    /\ deref_stack = <<>>
    /\ deref_result = "idle"
    /\ overflow_checks = FALSE

IdleTree ==
    /\ tree = <<>>
    /\ tree_stack = <<>>
    /\ tree_pages = <<>>
    /\ tree_result = "idle"
    /\ tree_visits = 0
    /\ tree_bundle = <<>>

IdleXObj ==
    /\ forms = <<>>
    /\ xobj_stack = <<>>
    /\ xobj_result = "idle"

IdleRender ==
    /\ form_tree = 0
    /\ frames = <<>>
    /\ form_ops = <<>>
    /\ render_result = "idle"

IdleRange ==
    /\ range_in = [a |-> 0, b |-> 0, n |-> 0]
    /\ range_pc = "idle"
    /\ range_page_id = 0
    /\ range_end = 0
    /\ range_pages = 0
    /\ range_result = "idle"

IdleParse ==
    /\ parse_file = [newest |-> <<>>, older |-> <<>>, root |-> 0]
    /\ parse_pc = "idle"
    /\ parse_xref = <<>>
    /\ parse_doc = <<>>
    /\ parse_bundles = <<>>

IdleText ==
    /\ text_extractor = [segments |-> <<>>, current_segment |-> <<>>]
    /\ text_seen = 0
    /\ text_ops = 0
    /\ text_pc = "idle"
    /\ text_spans = <<>>

IdleXref ==
    /\ xref_file = [sections |-> <<>>, startxref |-> 0]
    /\ xref_pc = "idle"
    /\ xref_table = [entries |-> {}, trailer |-> 0]
    /\ xref_visited = {}
    /\ xref_parsed = <<>>

IdleZip ==
    /\ zip_input = [data_len |-> [m |-> 0, k |-> 0], suspected_compressed |-> FALSE, max_ratio |-> [m |-> 0, k |-> 0]]
    /\ zip_checks = FALSE
    /\ zip_result = "idle"

IdleBox ==
    /\ box_path = <<>>
    /\ box_depth = 0
    /\ box_inherited = [mediabox |-> <<>>, cropbox |-> <<>>]
    /\ box_page = <<>>

IdleCover ==
    /\ cover_config = FALSE
    /\ cover_ops = <<>>
    /\ cover_next = 0
    /\ cover_spans = <<>>
    /\ cover_pc = "idle"

IdleHook ==
    /\ hook_pc = "idle"
    /\ hook_attempt = 0
    /\ hook_backoff = 0
    /\ hook_log = <<>>
    /\ hook_slept = <<>>
    /\ hook_result = "idle"

IdleQueue ==
    /\ queue_reqs = <<>>
    /\ queue_jobs = {}
    /\ queue_list = <<>>
    /\ queue_log = <<>>

IdleLimit ==
    /\ rl_config = [max_requests |-> 0, window |-> 0]
    /\ rl_now = 0
    /\ rl_entries = <<>>
    /\ rl_lock = 0
    /\ rl_calls = <<>>
    /\ rl_log = <<>>

IdleAuth ==
    /\ auth_keys = <<>>
    /\ auth_revoked = {}
    /\ auth_reqs = <<>>

IdleGs ==
    /\ gs_state = <<>>
    /\ gs_ctm = <<>>
    /\ gs_text_matrix = <<>>
    /\ gs_font_name = "idle"
    /\ gs_stack = <<>>
    /\ gs_count = 0
    /\ gs_marks = <<>>
    /\ gs_restored = <<>>

IdleSpan ==
    /\ span_gs = <<>>
    /\ span_extractor = <<>>
    /\ span_count = 0
    /\ span_emitted = <<>>

IdleBg ==
    /\ bg_fill_color = <<>>
    /\ bg_ctm = <<>>
    /\ bg_pending_rect = <<>>
    /\ bg_color = <<>>
    /\ bg_count = 0
    /\ bg_text_shown = FALSE
    /\ bg_fills = <<>>

IdleContent ==
    /\ cs_seen = <<>>
    /\ cs_operands = <<>>
    /\ cs_text = <<>>
    /\ cs_font_name = <<>>
    /\ cs_ops = <<>>

----------------------------------------------------------------------------
(* convert_pdf: the file, the configuration and the pipeline.              *)

MaxPages == 2

\* zip_bomb.rs: ZipBombDetector::with_limit_100_to_1 and the hard ceiling.
DEFAULT_MAX_RATIO == 100
MAX_DECOMPRESSED_SIZE == 100 * 1024 * 1024

\* A stream of the file.  filter: its dictionary says /Filter /FlateDecode;
\* zlib: its bytes start with the zlib header 0x78; valid: they inflate;
\* clen and dlen: compressed and decompressed size in bytes.
PlainStream   == [filter |-> FALSE, zlib |-> FALSE, valid |-> FALSE,
                  clen |-> 64, dlen |-> 64]
FlateStream   == [filter |-> TRUE, zlib |-> TRUE, valid |-> TRUE,
                  clen |-> 64, dlen |-> 640]
CorruptStream == [filter |-> TRUE, zlib |-> TRUE, valid |-> FALSE,
                  clen |-> 64, dlen |-> 0]
BombStream    == [filter |-> TRUE, zlib |-> TRUE, valid |-> TRUE,
                  clen |-> 1024 * 1024, dlen |-> 1024 * 1024 * 1024]
RawBombStream == [filter |-> FALSE, zlib |-> TRUE, valid |-> TRUE,
                  clen |-> 1024 * 1024, dlen |-> 1024 * 1024 * 1024]

ContentStreams == {PlainStream, FlateStream, CorruptStream, BombStream,
                   RawBombStream}
FormStreams    == {PlainStream, CorruptStream}

\* Font objects of the file: 1 and 2 are embedded, 3 is not.
FontRefs == {1, 2, 3}
FontFile(font_ref) ==
    CASE font_ref = 1 -> <<"A">>
      [] font_ref = 2 -> <<"B">>
      [] OTHER        -> <<>>
FontLists == {<<>>, <<1>>, <<1, 2>>, <<2, 3>>}

\* A page of the file: its content stream shows one text and, when the page
\* has a Form XObject, invokes it with Do; the form shows one text.
FilePages ==
    [contents : ContentStreams,
     form     : {<<>>} \cup {<<f>> : f \in FormStreams},
     fonts    : FontLists]

RECURSIVE SeqsUpTo(_, _)
SeqsUpTo(S, n) ==
    IF n = 0 THEN {<<>>}
    ELSE LET shorter == SeqsUpTo(S, n - 1)
         IN  shorter \cup {Append(q, x) : q \in {r \in shorter : Len(r) = n - 1},
                                          x \in S}

\* usize::MAX, scaled down to fit the 32-bit integers of TLC.
UsizeMax == 4095

PageRanges == {<<1, UsizeMax>>, <<1, 1>>, <<2, 2>>}

\* parser/mod.rs 131-136: a stream with /Filter /FlateDecode is inflated when
\* it is dereferenced; when that fails the raw bytes are kept.
DerefInflates(s) == s.filter /\ s.zlib /\ s.valid
DerefStream(s) ==
    IF DerefInflates(s)
        THEN [zlib |-> FALSE, valid |-> FALSE, clen |-> s.dlen, dlen |-> s.dlen]
        ELSE [zlib |-> s.zlib, valid |-> s.valid, clen |-> s.clen, dlen |-> s.dlen]

\* renderer/mod.rs 789-799 and content_stream.rs 23-54: bytes that start
\* with 0x78 are inflated with read_to_end; the result is "Ok" or "Err".
ParseContentStream(bytes) ==
    IF bytes.zlib /\ ~bytes.valid THEN "Err" ELSE "Ok"
ContentInflates(bytes) == bytes.zlib /\ bytes.valid

\* page_tree.rs parse_page: the PdfPage built from a page of the file.
ParsePage(p, page_number) ==
    [page_number   |-> page_number,
     contents      |-> DerefStream(p.contents),
     form_xobjects |-> [i \in 1..Len(p.form) |-> DerefStream(p.form[i])],
     fonts         |-> p.fonts]

\* parser/mod.rs 439-453: a document without pages gets three blank ones.
BlankPage(i) ==
    [page_number   |-> i,
     contents      |-> [zlib |-> FALSE, valid |-> FALSE, clen |-> 0, dlen |-> 0],
     form_xobjects |-> <<>>,
     fonts         |-> <<>>]

ParsedPages(file) ==
    IF Len(file.pages) = 0
        THEN [i \in 1..3 |-> BlankPage(i)]
        ELSE [i \in 1..Len(file.pages) |-> ParsePage(file.pages[i], i - 1)]

Sizes(s) == [clen |-> s.clen, dlen |-> s.dlen]

\* The streams inflated while the page tree is walked.
InflatedByParse(file) ==
    {Sizes(file.pages[i].contents) :
        i \in {j \in 1..Len(file.pages) : DerefInflates(file.pages[j].contents)}}
    \cup
    {Sizes(file.pages[i].form[1]) :
        i \in {j \in 1..Len(file.pages) :
                 Len(file.pages[j].form) = 1 /\ DerefInflates(file.pages[j].form[1])}}

\* lib.rs 52-54.  saturating_sub never wraps; start_page + 1000 may.
PAGE_CAP == 1000
Min(x, y) == IF x < y THEN x ELSE y
Max(x, y) == IF x > y THEN x ELSE y
StartPage(a) == IF a = 0 THEN 0 ELSE a - 1
CapOverflows(a) == StartPage(a) + PAGE_CAP > UsizeMax
EndPageMutNoCap(a, b, n) == Min(b, n)
EndPage(a, b, n) ==
    Min(Min(b, n), (StartPage(a) + PAGE_CAP) % (UsizeMax + 1))

\* render_form_xobject: "Ok" with the form's spans, or "Err".
RenderFormXObject(form) == ParseContentStream(form)

\* renderer/mod.rs 474-485: the result of a form is merged only `if let Ok`.
FormSpans(page) ==
    IF Len(page.form_xobjects) = 1
       /\ RenderFormXObject(page.form_xobjects[1]) = "Ok"
        THEN <<"form">>
        ELSE <<>>

\* render_pdf_page: "Err" when the page's content stream cannot be parsed,
\* else the RenderedPage.
RenderFails(page) == ParseContentStream(page.contents) = "Err"
OwnSpans(page) == IF page.contents.dlen = 0 THEN <<>> ELSE <<"page">>
RenderPdfPage(page, page_number) ==
    [page_number |-> page_number,
     text_spans  |-> OwnSpans(page) \o FormSpans(page)]

InflatedByRender(page) ==
    (IF ContentInflates(page.contents) THEN {Sizes(page.contents)} ELSE {})
    \cup
    (IF Len(page.form_xobjects) = 1 /\ ContentInflates(page.form_xobjects[1])
        THEN {Sizes(page.form_xobjects[1])} ELSE {})

\* util/hash.rs: SHA-256, taken as collision-free.
HashBytes(bytes) == [sha256 |-> bytes]

\* fonts/mod.rs WOFF2Encoder::encode: a header in front of the font bytes.
ConvertToWoff2(bytes) == <<"wOF2">> \o bytes

\* OutputBundle::add_font (renderer/mod.rs 67-92).
AddFont(fonts, font_id, font_data) ==
    Append(fonts, [font_id |-> font_id, content_hash |-> HashBytes(font_data)])

\* extract_fonts_from_document (renderer/mod.rs 759-787): every font
\* reference of every page, in order.
RECURSIVE Flatten(_)
Flatten(ss) == IF ss = <<>> THEN <<>> ELSE Head(ss) \o Flatten(Tail(ss))
AllFontRefs(pages) == Flatten([i \in 1..Len(pages) |-> pages[i].fonts])

\* FontProcessor::extract_font_from_pdf gives an embedded font the next id.
RECURSIVE ExtractFonts(_, _, _)
ExtractFonts(refs, font_counter, fonts) ==
    IF refs = <<>> THEN fonts
    ELSE IF FontFile(Head(refs)) = <<>>
        THEN ExtractFonts(Tail(refs), font_counter, fonts)
        ELSE ExtractFonts(Tail(refs), font_counter + 1,
                 AddFont(fonts, font_counter, ConvertToWoff2(FontFile(Head(refs)))))

ConvertOnly == UNCHANGED <<varsDeref, varsTree, varsXObj, varsRender,
                           varsRange, varsParse, varsText, varsXref, varsZip,
                           varsBox, varsCover, varsHook, varsQueue,
                           varsLimit, varsAuth, varsGs, varsSpan, varsBg,
                           varsContent>>

InitConvert ==
    /\ data \in [header : BOOLEAN, pages : SeqsUpTo(FilePages, MaxPages)]
    /\ config \in [page_range : PageRanges, timeout_ms : BOOLEAN]
    /\ pc = "parse"
    /\ document = <<>>
    /\ page_id = 0
    /\ output_bundle = [pages |-> <<>>, fonts |-> <<>>]
    /\ outcome = "running"
    /\ elapsed = FALSE
    /\ late_boundary = FALSE
    /\ inflated = {}

\* The deadline of config.timeout_ms passes while the call is running.
DeadlinePasses ==
    /\ config.timeout_ms
    /\ outcome = "running"
    /\ ~elapsed
    /\ elapsed' = TRUE
    /\ UNCHANGED <<data, config, pc, document, page_id, output_bundle, outcome,
                   late_boundary, inflated>>
    /\ ConvertOnly

\* lib.rs 37: parser::parse_pdf(data)?
ParsePdfFails ==
    /\ pc = "parse"
    /\ ~data.header
    /\ pc' = "done"
    /\ outcome' = "Err_PdfParseError"
    /\ UNCHANGED <<data, config, document, page_id, output_bundle, elapsed,
                   late_boundary, inflated>>
    /\ ConvertOnly

\* lib.rs 37-54: the document, the discarded font scan, start_page.
ParsePdf ==
    /\ pc = "parse"
    /\ data.header
    /\ ~CapOverflows(config.page_range[1])
    /\ document' = ParsedPages(data)
    /\ inflated' = inflated \cup InflatedByParse(data)
    /\ page_id' = StartPage(config.page_range[1])
    /\ pc' = "pages"
    /\ UNCHANGED <<data, config, output_bundle, outcome, elapsed, late_boundary>>
    /\ ConvertOnly

EndPageOf == EndPage(config.page_range[1], config.page_range[2], Len(document))

\* The loop goes from one page to the next although the deadline has passed.
CrossedLate == elapsed /\ page_id > StartPage(config.page_range[1])

\* lib.rs 56-63: render_pdf_page(...)? fails and the call returns the error.
RenderPageFails ==
    /\ pc = "pages"
    /\ page_id < EndPageOf
    /\ RenderFails(document[page_id + 1])
    /\ pc' = "done"
    /\ outcome' = "Err_PdfParseError"
    /\ UNCHANGED <<data, config, document, page_id, output_bundle, elapsed,
                   late_boundary, inflated>>
    /\ ConvertOnly

\* lib.rs 56-66: one iteration of the page loop.
RenderPage ==
    /\ pc = "pages"
    /\ page_id < EndPageOf
    /\ ~RenderFails(document[page_id + 1])
    /\ output_bundle' =
         [output_bundle EXCEPT
            !.pages = Append(@, RenderPdfPage(document[page_id + 1], page_id + 1))]
    /\ inflated' = inflated \cup InflatedByRender(document[page_id + 1])
    /\ late_boundary' = (late_boundary \/ CrossedLate)
    /\ page_id' = page_id + 1
    /\ UNCHANGED <<data, config, pc, document, outcome, elapsed>>
    /\ ConvertOnly

\* lib.rs 68-70: extract_fonts_from_document, then Ok(output_bundle).
ExtractFontsAndReturn ==
    /\ pc = "pages"
    /\ page_id >= EndPageOf
    /\ output_bundle' =
         [output_bundle EXCEPT
            !.fonts = ExtractFonts(AllFontRefs(document), 0, @)]
    /\ pc' = "done"
    /\ outcome' = "Ok"
    /\ UNCHANGED <<data, config, document, page_id, elapsed, late_boundary,
                   inflated>>
    /\ ConvertOnly

NextConvert ==
    \/ DeadlinePasses
    \/ ParsePdfFails
    \/ ParsePdf
    \/ RenderPageFails
    \/ RenderPage
    \/ ExtractFontsAndReturn

Init == InitConvert /\ IdleDeref /\ IdleTree /\ IdleXObj /\ IdleRender /\ IdleRange
    /\ IdleParse
    /\ IdleText
    /\ IdleXref
    /\ IdleZip
    /\ IdleBox
    /\ IdleCover
    /\ IdleHook
    /\ IdleQueue
    /\ IdleLimit
    /\ IdleAuth
    /\ IdleGs
    /\ IdleSpan
    /\ IdleBg
    /\ IdleContent

Next == NextConvert

Spec == Init /\ [][Next]_vars

----------------------------------------------------------------------------
(* Claims about convert_pdf, checked under Spec.                           *)

\* What the pages of the file hold: the page's own text and, when it has a
\* Form XObject, the form's text.
ExpectedSpans(p) == <<"page">> \o (IF Len(p.form) = 1 THEN <<"form">> ELSE <<>>)

\* C2: whenever convert_pdf returns Ok, every page of the bundle holds all
\* the spans of the page of the file it was rendered from, those of its Form
\* XObject included; nothing was left out because a step failed.
C2_CompleteOrError ==
    outcome = "Ok" =>
        \A k \in 1..Len(output_bundle.pages) :
            LET n == output_bundle.pages[k].page_number
            IN  n <= Len(data.pages) =>
                  output_bundle.pages[k].text_spans = ExpectedSpans(data.pages[n])

ExceedsLimits(s) ==
    \/ s.dlen > MAX_DECOMPRESSED_SIZE
    \/ s.dlen \div s.clen > DEFAULT_MAX_RATIO

\* C3: when a stream that was decompressed during convert_pdf exceeds the
\* ratio or the 100 MiB ceiling, the call ends with Err(ZipBomb).
C3_ZipBombGuarded ==
    (pc = "done" /\ \E s \in inflated : ExceedsLimits(s)) => outcome = "Err_ZipBomb"

\* C4: when the deadline has passed at a boundary between two pages, the call
\* stops there with Err(Timeout): it never ends with a page rendered after
\* such a boundary.
C4_TimeoutAtBoundary ==
    (pc = "done" /\ late_boundary) => outcome = "Err_Timeout"

\* C10: no two font entries of a returned bundle have the same content_hash.
C10_FontsDeduplicated ==
    outcome = "Ok" =>
        \A i, j \in 1..Len(output_bundle.fonts) :
            i # j => output_bundle.fonts[i].content_hash
                       # output_bundle.fonts[j].content_hash

\* The page numbers of the requested range, as the loop of lib.rs 52-56
\* goes through them.
RequestedPages == (StartPage(config.page_range[1]) + 1)..EndPageOf

----------------------------------------------------------------------------
(* PdfRefResolver::dereference and parse_object_at_offset                  *)
(* (parser/mod.rs 36-145), as called on the trailer's /Root by             *)
(* parse_trailer_and_catalog: no cache.                                    *)

NObjs == 3
\* Frames the thread's stack holds before it overflows.
MaxStack == 6
\* Layout of the file: its length, and the payload length of each stream.
DataLen == 64
PayloadLen == 4

ObjIds == 1..NObjs
StreamStart(o) == 10 * o

\* /Length of a stream dictionary: absent, an integer or a reference.
NoLength     == [tag |-> "none", n |-> 0]
IntLength(n) == [tag |-> "int", n |-> n]
RefLength(t) == [tag |-> "ref", n |-> t]

\* An entry of the table and the object at its offset.  kind "past_eof": the
\* offset is not within the file.  flate of a stream: "none" without /Filter
\* /FlateDecode, else whether its bytes inflate ("ok") or not ("corrupt").
FreeEntry    == [in_use |-> FALSE, kind |-> "free", value |-> 0,
                 length |-> NoLength, flate |-> "none"]
PastEofEntry == [in_use |-> TRUE, kind |-> "past_eof", value |-> 0,
                 length |-> NoLength, flate |-> "none"]
IntObject(v) == [in_use |-> TRUE, kind |-> "int", value |-> v,
                 length |-> NoLength, flate |-> "none"]
DictObject   == [in_use |-> TRUE, kind |-> "dict", value |-> 0,
                 length |-> NoLength, flate |-> "none"]
StreamObject(l) == [in_use |-> TRUE, kind |-> "stream", value |-> 0,
                    length |-> l, flate |-> "none"]
FlateObject(flate) == [in_use |-> TRUE, kind |-> "stream", value |-> 0,
                       length |-> IntLength(PayloadLen), flate |-> flate]

ObjectMenu ==
    {FreeEntry, PastEofEntry, DictObject, IntObject(-1), IntObject(PayloadLen)}
    \cup {StreamObject(NoLength), StreamObject(IntLength(-1)),
          StreamObject(IntLength(PayloadLen)), StreamObject(IntLength(DataLen)),
          StreamObject(IntLength(UsizeMax))}
    \cup {StreamObject(RefLength(t)) : t \in ObjIds}
    \cup {FlateObject("ok"), FlateObject("corrupt")}

\* `*n as usize` of an i64: two's complement.
I64AsUsize(n) == n % (UsizeMax + 1)
\* `n as usize` of an f64: saturating.
F64AsUsize(n) == IF n < 0 THEN 0 ELSE Min(n, UsizeMax)

\* parser/mod.rs 102-111, for a Length that needs no dereference.
DirectLength(l) == IF l.tag = "int" THEN I64AsUsize(l.n) ELSE 0

\* parser/mod.rs 106-107: the length a dereferenced object gives.
LengthFrom(result, o) ==
    IF result = "Some" /\ objects[o].kind = "int"
        THEN F64AsUsize(objects[o].value)
        ELSE 0

\* parser/mod.rs 113-126: stream_start + length, then the slice bounds.
SumOverflows(o, length) == length > 0 /\ StreamStart(o) + length > UsizeMax
StreamEnd(o, length) ==
    LET sum == (StreamStart(o) + length) % (UsizeMax + 1)
    IN  IF length > 0 /\ sum <= DataLen
            THEN sum
            ELSE StreamStart(o) + PayloadLen
\* parser/mod.rs 128: data[stream_start..stream_end] panics on start > end.
SlicePanics(o, length) == StreamStart(o) > StreamEnd(o, length)

Frame(o) == [obj |-> o, resolved |-> FALSE, length |-> 0]
TopFrame == deref_stack[Len(deref_stack)]
Caller   == deref_stack[Len(deref_stack) - 1]

DerefOnly == UNCHANGED <<varsConvert, varsTree, varsXObj, varsRender,
                         varsRange, varsParse, varsText, varsXref, varsZip,
                         varsBox, varsCover, varsHook, varsQueue, varsLimit,
                         varsAuth, varsGs, varsSpan, varsBg, varsContent>>

InitDeref ==
    /\ objects \in [ObjIds -> ObjectMenu]
    /\ deref_stack = <<Frame(1)>>
    /\ deref_result = "running"
    /\ overflow_checks \in BOOLEAN

\* The innermost call returns `result`: to its caller, which takes the
\* length from it, or to parse_trailer_and_catalog.
Return(result) ==
    IF Len(deref_stack) = 1
        THEN /\ deref_stack' = <<>>
             /\ deref_result' = result
        ELSE /\ deref_stack' =
                  [i \in 1..(Len(deref_stack) - 1) |->
                     IF i = Len(deref_stack) - 1
                        THEN [Caller EXCEPT !.resolved = TRUE,
                                            !.length = LengthFrom(result, TopFrame.obj)]
                        ELSE deref_stack[i]]
             /\ deref_result' = deref_result

\* parser/mod.rs 43-51: no entry in use.
DerefFree ==
    /\ deref_result = "running"
    /\ ~objects[TopFrame.obj].in_use
    /\ Return("None")
    /\ UNCHANGED <<objects, overflow_checks>>
    /\ DerefOnly

\* parser/mod.rs 62-65: the offset of the entry is not within the file.
DerefPastEof ==
    /\ deref_result = "running"
    /\ objects[TopFrame.obj].kind = "past_eof"
    /\ Return("None")
    /\ UNCHANGED <<objects, overflow_checks>>
    /\ DerefOnly

\* parser/mod.rs 86-144: an object that is no stream.
DerefObject ==
    /\ deref_result = "running"
    /\ objects[TopFrame.obj].kind \in {"int", "dict"}
    /\ Return("Some")
    /\ UNCHANGED <<objects, overflow_checks>>
    /\ DerefOnly

\* parser/mod.rs 105-108: /Length is a reference: dereference it.
DerefLength ==
    /\ deref_result = "running"
    /\ objects[TopFrame.obj].kind = "stream"
    /\ objects[TopFrame.obj].length.tag = "ref"
    /\ ~TopFrame.resolved
    /\ IF Len(deref_stack) >= MaxStack
          THEN /\ deref_result' = "stack_overflow"
               /\ deref_stack' = deref_stack
          ELSE /\ deref_stack' = Append(deref_stack, Frame(objects[TopFrame.obj].length.n))
               /\ deref_result' = deref_result
    /\ UNCHANGED <<objects, overflow_checks>>
    /\ DerefOnly

StreamLength ==
    IF objects[TopFrame.obj].length.tag = "ref"
        THEN TopFrame.length
        ELSE DirectLength(objects[TopFrame.obj].length)

\* parser/mod.rs 130-138 and decompress_flate (148-154): the stream that is
\* returned holds the inflated bytes, or the raw ones when there is no
\* /FlateDecode or `decompress_flate(..).unwrap_or(raw_stream)` met an Err.
StreamResult(o) ==
    IF objects[o].flate = "corrupt" THEN "SomeRawStream" ELSE "Some"

\* parser/mod.rs 113-138: the payload is cut out and the stream returned.
DerefStreamBody ==
    /\ deref_result = "running"
    /\ objects[TopFrame.obj].kind = "stream"
    /\ objects[TopFrame.obj].length.tag = "ref" => TopFrame.resolved
    /\ IF \/ overflow_checks /\ SumOverflows(TopFrame.obj, StreamLength)
          \/ SlicePanics(TopFrame.obj, StreamLength)
          THEN /\ deref_result' = "panic"
               /\ deref_stack' = deref_stack
          ELSE Return(StreamResult(TopFrame.obj))
    /\ UNCHANGED <<objects, overflow_checks>>
    /\ DerefOnly

NextDeref ==
    \/ DerefFree
    \/ DerefPastEof
    \/ DerefObject
    \/ DerefLength
    \/ DerefStreamBody

InitSpecDeref ==
    InitDeref /\ IdleConvert /\ IdleTree /\ IdleXObj /\ IdleRender /\ IdleRange
    /\ IdleParse
    /\ IdleText
    /\ IdleXref
    /\ IdleZip
    /\ IdleBox
    /\ IdleCover
    /\ IdleHook
    /\ IdleQueue
    /\ IdleLimit
    /\ IdleAuth
    /\ IdleGs
    /\ IdleSpan
    /\ IdleBg
    /\ IdleContent

SpecDeref == InitSpecDeref /\ [][NextDeref]_vars

\* C1: convert_pdf ends with Ok or Err: dereferencing the objects of the file
\* never panics and never overflows the stack.
C1_NoCrash == deref_result \notin {"panic", "stack_overflow"}

\* C18: a reference to a stream whose data fails to decompress, to a free
\* entry or to an offset past the end of the file is answered with no object
\* ("missing" or an error), never with an object and never with a panic.
C18_DerefFailureReported ==
    (/\ deref_result # "running"
     /\ \/ objects[1].flate = "corrupt"
        \/ objects[1].kind \in {"free", "past_eof"})
        => deref_result = "None"

----------------------------------------------------------------------------
(* extract_pages_from_xref (parser/mod.rs 513-573), the fallback of        *)
(* parse_pdf.  An entry of the table is [object_id, kind]; the kind tells  *)
(* whether it is in use, whether its offset lies within the file and what  *)
(* the bytes there hold.                                                   *)

\* parser/mod.rs 567: the scan of the fallback stops at ten pages.
MAX_FALLBACK_PAGES == 10


InUse(kind)    == kind \in {"eof", "page", "catalog", "other"}
OffsetOk(kind) == kind \in {"page", "catalog", "other"}
\* parser/mod.rs 547-549: the bytes at the offset hold /Type and /Page.
PageLike(kind) == kind \in {"page", "catalog"}

XRefEntry(id, kind) == [object_id |-> id, kind |-> kind]

\* A page as extract_page_at_offset builds it (parser/mod.rs 575-628: the
\* slice it reads is empty), which is also the blank page of parser/mod.rs
\* 439-453.
FallbackPage(n) == [page_number |-> n, width |-> 612, height |-> 792,
                    contents |-> <<>>]

\* parser/mod.rs 518-536: the page at the root reference.
RootPage(xref, pages_root) ==
    LET in_use == {i \in 1..Len(xref) : InUse(xref[i].kind)}
        first  == CHOOSE i \in in_use : \A j \in in_use : i <= j
        ref    == IF pages_root # 0 THEN pages_root
                  ELSE IF in_use # {} THEN xref[first].object_id
                  ELSE 0
        found  == {i \in in_use : xref[i].object_id = ref}
        entry  == CHOOSE i \in found : \A j \in found : i <= j
    IN  IF ref # 0 /\ found # {} /\ OffsetOk(xref[entry].kind)
            THEN <<FallbackPage(1)>>
            ELSE <<>>

\* parser/mod.rs 538-570: the scan over the entries.
RECURSIVE ScanEntries(_, _, _)
ScanEntries(xref, i, pages) ==
    IF i > Len(xref) THEN pages
    ELSE LET e == xref[i]
             known == \E k \in 1..Len(pages) : pages[k].page_number = e.object_id
             found == IF InUse(e.kind) /\ OffsetOk(e.kind) /\ PageLike(e.kind) /\ ~known
                         THEN Append(pages, FallbackPage(e.object_id))
                         ELSE pages
         IN  IF Len(found) >= MAX_FALLBACK_PAGES
                THEN found
                ELSE ScanEntries(xref, i + 1, found)

ExtractPagesFromXref(xref, pages_root) ==
    ScanEntries(xref, 1, RootPage(xref, pages_root))

----------------------------------------------------------------------------
(* PageTreeParser::parse_all_pages, traverse_page_tree and                 *)
(* parse_pages_node (parser/page_tree.rs 24-137).                          *)

\* page_tree.rs 38: `if depth > 100`.
MaxTreeDepth == 100

NNodes == 2
NodeIds == 1..NNodes

\* /Kids entries: a reference to a node, or 0 for an entry that is no
\* reference (skipped at page_tree.rs 130).
KidLists ==
    {<<>>} \cup {<<k>> : k \in 0..NNodes}
           \cup {<<k, l>> : k \in NodeIds, l \in NodeIds}

\* A node as dereference and the /Type switch see it: no object, a Page
\* whose /Contents resolves or dangles, a Pages node, anything else.
MissingNode == [type |-> "None", kids |-> <<>>]
PageNode    == [type |-> "Page", kids |-> <<>>]
BadPageNode == [type |-> "PageDanglingContents", kids |-> <<>>]
OtherNode   == [type |-> "Other", kids |-> <<>>]
PagesNode(kids) == [type |-> "Pages", kids |-> kids]

NodeMenu ==
    {MissingNode, PageNode, BadPageNode, OtherNode}
    \cup {PagesNode(kids) : kids \in KidLists}

\* A chain of n Pages nodes, one below the other, ending in a Page.
Chain(n) ==
    [i \in 1..(n + 1) |-> IF i <= n THEN PagesNode(<<i + 1>>) ELSE PageNode]

\* Chains whose leaf lies just within and just beyond the depth cap.
ChainLengths == (MaxTreeDepth - 1)..(MaxTreeDepth + 2)

\* Trees of four nodes whose root lists its kids in every order, the first
\* kid being a Page or a Pages node with kids of its own.
BranchingTrees ==
    LET KidOrders == {<<k, l>> : k, l \in 2..4}
                     \cup {<<k, l, m>> : k, l, m \in 2..4}
        Inner == {PageNode, PagesNode(<<>>), PagesNode(<<3>>), PagesNode(<<4, 3>>)}
    IN  {[i \in 1..4 |-> IF i = 1 THEN PagesNode(kids)
                         ELSE IF i = 2 THEN inner ELSE PageNode] :
            kids \in KidOrders, inner \in Inner}

Trees ==
    [NodeIds -> NodeMenu] \cup {Chain(n) : n \in ChainLengths}
                          \cup BranchingTrees

\* page_tree.rs 38.
TooDeepMutLate(depth) == depth > MaxTreeDepth + 2
TooDeep(depth) == depth > MaxTreeDepth

\* page_tree.rs 52: parse_page(dict, pages.len(), inherited); `shows` is the
\* object whose content the page shows, 0 for a page that shows none.
ParsedPage(page_number, node) == [page_number |-> page_number, shows |-> node]

Call(node, depth) == [node |-> node, depth |-> depth, kid |-> 0]
TopCall == tree_stack[Len(tree_stack)]
TopNode == tree[TopCall.node]
Popped  == SubSeq(tree_stack, 1, Len(tree_stack) - 1)

TreeOnly == UNCHANGED <<varsConvert, varsDeref, varsXObj, varsRender,
                        varsRange, varsParse, varsText, varsXref, varsZip,
                        varsBox, varsCover, varsHook, varsQueue, varsLimit,
                        varsAuth, varsGs, varsSpan, varsBg, varsContent>>

\* parse_all_pages: traverse_page_tree(root_ref, &mut pages, 0, ..).
InitTree ==
    /\ tree \in Trees
    /\ tree_stack = <<Call(1, 0)>>
    /\ tree_pages = <<>>
    /\ tree_result = "running"
    /\ tree_visits = 0
    /\ tree_bundle = <<>>

\* `?` takes an Err through every caller up to parse_all_pages.
TreeErr ==
    /\ tree_result' = "Err"
    /\ tree_stack' = <<>>
    /\ UNCHANGED <<tree, tree_pages>>

\* A call returns Ok(()): to parse_pages_node's loop, or to parse_all_pages.
TreeReturn ==
    /\ tree_stack' = Popped
    /\ tree_result' = IF Len(tree_stack) = 1 THEN "Ok" ELSE tree_result
    /\ UNCHANGED tree

Entering == tree_result = "running" /\ TopCall.kid = 0

\* page_tree.rs 38-40.
TraverseTooDeep ==
    /\ Entering
    /\ TooDeep(TopCall.depth)
    /\ TreeErr
    /\ UNCHANGED <<tree_visits, tree_bundle>>
    /\ TreeOnly

Visit == tree_visits' = Max(tree_visits, TopCall.depth)

\* page_tree.rs 42-44, 58-70: no object, or not a page-tree node.
TraverseInvalid ==
    /\ Entering
    /\ ~TooDeep(TopCall.depth)
    /\ TopNode.type \in {"None", "Other"}
    /\ TreeErr
    /\ Visit
    /\ UNCHANGED tree_bundle
    /\ TreeOnly

\* page_tree.rs 51-54: a Page; parse_page fails on a dangling /Contents.
TraversePage ==
    /\ Entering
    /\ ~TooDeep(TopCall.depth)
    /\ TopNode.type \in {"Page", "PageDanglingContents"}
    /\ IF TopNode.type = "Page"
          THEN /\ tree_pages' = Append(tree_pages, ParsedPage(Len(tree_pages), TopCall.node))
               /\ TreeReturn
          ELSE TreeErr
    /\ Visit
    /\ UNCHANGED tree_bundle
    /\ TreeOnly

\* page_tree.rs 55-57, 128-133: a Pages node, and each step of the loop
\* over its kids.
TraverseKid ==
    /\ tree_result = "running"
    /\ TopCall.kid > 0 \/ ~TooDeep(TopCall.depth)
    /\ TopNode.type = "Pages"
    /\ TopCall.kid < Len(TopNode.kids)
    /\ LET kid_ref == TopNode.kids[TopCall.kid + 1]
           advanced == [tree_stack EXCEPT ![Len(tree_stack)].kid = @ + 1]
       IN  tree_stack' = IF kid_ref = 0
                            THEN advanced
                            ELSE Append(advanced, Call(kid_ref, TopCall.depth + 1))
    /\ IF TopCall.kid = 0 THEN Visit ELSE UNCHANGED tree_visits
    /\ UNCHANGED <<tree, tree_pages, tree_result, tree_bundle>>
    /\ TreeOnly

\* page_tree.rs 136: the loop is over.
TraverseDone ==
    /\ tree_result = "running"
    /\ TopCall.kid > 0 \/ ~TooDeep(TopCall.depth)
    /\ TopNode.type = "Pages"
    /\ TopCall.kid = Len(TopNode.kids)
    /\ TreeReturn
    /\ IF TopCall.kid = 0 THEN Visit ELSE UNCHANGED tree_visits
    /\ UNCHANGED <<tree_pages, tree_bundle>>
    /\ TreeOnly

\* The cross-reference table of the file of the tree: an entry for every
\* object there is, in the order of the object numbers.
TreeXref ==
    LET PageTypes == {"Page", "PageDanglingContents", "Pages"}
        ids == {id \in DOMAIN tree : tree[id].type # "None"}
    IN  SelectSeq([id \in DOMAIN tree |->
                     XRefEntry(id, IF tree[id].type \in PageTypes
                                      THEN "page" ELSE "other")],
                  LAMBDA e : e.object_id \in ids)

\* parse_pdf (parser/mod.rs 417-453) after parse_all_pages: its pages, or
\* those of the fallback, or three blank ones.  A page of the fallback shows
\* nothing of the object it was made from (parser/mod.rs 575-628).
TreeDocument ==
    LET fallback == ExtractPagesFromXref(TreeXref, 1)
        pages == IF tree_result = "Ok" THEN tree_pages
                 ELSE [k \in 1..Len(fallback) |->
                          ParsedPage(fallback[k].page_number, 0)]
    IN  IF pages = <<>> THEN [i \in 1..3 |-> ParsedPage(i, 0)] ELSE pages

\* The pages a..b of a list, as lib.rs 51-56 bounds the loop.
Restrict(pages, a, b) ==
    SubSeq(pages, StartPage(a) + 1, EndPage(a, b, Len(pages)))

\* parse_pdf returns the document and convert_pdf (lib.rs 51-66) renders
\* the pages of the range, in the order of document.pages.
TreeBundle ==
    /\ tree_result \in {"Ok", "Err"}
    /\ tree_bundle = <<>>
    /\ \E a \in 0..2, b \in {1, 2, UsizeMax} :
         tree_bundle' =
            <<[page_range |-> <<a, b>>,
               pages |-> LET rendered == Restrict(TreeDocument, a, b)
                         IN  [k \in 1..Len(rendered) |-> rendered[k].shows]]>>
    /\ UNCHANGED <<tree, tree_stack, tree_pages, tree_result, tree_visits>>
    /\ TreeOnly

NextTree ==
    \/ TraverseTooDeep
    \/ TraverseInvalid
    \/ TraversePage
    \/ TraverseKid
    \/ TraverseDone
    \/ TreeBundle

InitSpecTree ==
    InitTree /\ IdleConvert /\ IdleDeref /\ IdleXObj /\ IdleRender /\ IdleRange
    /\ IdleParse
    /\ IdleText
    /\ IdleXref
    /\ IdleZip
    /\ IdleBox
    /\ IdleCover
    /\ IdleHook
    /\ IdleQueue
    /\ IdleLimit
    /\ IdleAuth
    /\ IdleGs
    /\ IdleSpan
    /\ IdleBg
    /\ IdleContent

\* A step of traverse_page_tree.
TraverseStep ==
    \/ TraverseTooDeep
    \/ TraverseInvalid
    \/ TraversePage
    \/ TraverseKid
    \/ TraverseDone

\* The traversal is one sequential call: it keeps running until it returns.
SpecTree == InitSpecTree /\ [][NextTree]_vars /\ WF_vars(TraverseStep)

\* The references in the /Kids of the Pages nodes among `nodes`.
KidsOf(nodes) ==
    {ref \in DOMAIN tree :
        \E n \in nodes :
           /\ tree[n].type = "Pages"
           /\ \E i \in 1..Len(tree[n].kids) : tree[n].kids[i] = ref}

\* The references found k levels below `nodes`.
RECURSIVE Below(_, _)
Below(nodes, k) ==
    IF k = 0 \/ nodes = {} THEN nodes ELSE Below(KidsOf(nodes), k - 1)

\* The /Kids structure is deeper than the cap or contains a cycle: some
\* reference lies more than MaxTreeDepth levels below the root.
DeepOrCyclic == Below({1}, MaxTreeDepth + 1) # {}

\* C8: traverse_page_tree never dereferences a node more than 100 levels
\* below the root, a /Kids structure that is deeper or cyclic ends in Err,
\* and every traversal ends.
C8_DepthCapped ==
    /\ [](/\ tree_visits <= MaxTreeDepth
          /\ \A i \in 1..Len(tree_stack) : tree_stack[i].depth <= MaxTreeDepth + 1
          /\ tree_result = "Ok" => ~DeepOrCyclic)
    /\ <>(tree_result \in {"Ok", "Err"})

\* A cyclic or too deep structure was followed down to the cap and refused.
C8_Witness ==
    /\ tree_result = "Err"
    /\ tree_visits = MaxTreeDepth
    /\ DeepOrCyclic

\* A depth-first walk of /Kids in array order: the nodes still to visit and
\* the Page leaves met.  VisitFirst visits the first node to visit; a kid
\* that is no reference or has no object is passed over.
TypeOf(node) == IF node \in DOMAIN tree THEN tree[node].type ELSE "None"
VisitFirst(walk) ==
    LET node == Head(walk.todo)
    IN  [todo   |-> IF TypeOf(node) = "Pages"
                       THEN tree[node].kids \o Tail(walk.todo)
                       ELSE Tail(walk.todo),
         leaves |-> IF TypeOf(node) \in {"Page", "PageDanglingContents"}
                       THEN Append(walk.leaves, node)
                       ELSE walk.leaves]

RECURSIVE Walk(_)
Walk(walk) == IF walk.todo = <<>> THEN walk.leaves ELSE Walk(VisitFirst(walk))

Leaves(root) == Walk([todo |-> <<root>>, leaves |-> <<>>])

\* C13: page k of the bundle shows the k-th Page leaf of a depth-first walk
\* of /Kids from the root, within the requested range.
C13_PagesInTreeOrder ==
    (tree_bundle # <<>> /\ ~DeepOrCyclic) =>
        tree_bundle[1].pages =
            Restrict(Leaves(1), tree_bundle[1].page_range[1],
                     tree_bundle[1].page_range[2])

----------------------------------------------------------------------------
(* PageTreeParser::extract_xobjects (parser/page_tree.rs 276-413), called  *)
(* by parse_page on the page's resources.                                  *)

NForms == 2
FormIds == 1..NForms

\* The entries of a /XObject dictionary: references to XObject streams.
XObjectDicts ==
    {<<>>} \cup {<<k>> : k \in FormIds} \cup {<<k, l>> : k \in FormIds, l \in FormIds}

ImageXObject == [subtype |-> "Image", xobjects |-> <<>>]
NoXObject    == [subtype |-> "None", xobjects |-> <<>>]
FormXObject(xobjects) == [subtype |-> "Form", xobjects |-> xobjects]
PageResources(xobjects) == [subtype |-> "Page", xobjects |-> xobjects]

XObjectMenu == {ImageXObject, NoXObject} \cup {FormXObject(d) : d \in XObjectDicts}

XObjCall(owner) == [owner |-> owner, next |-> 1]
TopXObj   == xobj_stack[Len(xobj_stack)]
TopDict   == forms[TopXObj.owner].xobjects
TopEntry  == forms[TopDict[TopXObj.next]]

XObjOnly == UNCHANGED <<varsConvert, varsDeref, varsTree, varsRender,
                        varsRange, varsParse, varsText, varsXref, varsZip,
                        varsBox, varsCover, varsHook, varsQueue, varsLimit,
                        varsAuth, varsGs, varsSpan, varsBg, varsContent>>

InitXObj ==
    /\ \E page \in XObjectDicts, table \in [FormIds -> XObjectMenu] :
          forms = [o \in 0..NForms |-> IF o = 0 THEN PageResources(page) ELSE table[o]]
    /\ xobj_stack = <<XObjCall(0)>>
    /\ xobj_result = "running"

Advanced(stack) == [stack EXCEPT ![Len(stack)].next = @ + 1]

\* page_tree.rs 301-337: an entry that is no Form: an image, or skipped.
XObjSkip ==
    /\ xobj_result = "running"
    /\ TopXObj.next <= Len(TopDict)
    /\ TopEntry.subtype # "Form"
    /\ xobj_stack' = Advanced(xobj_stack)
    /\ UNCHANGED <<forms, xobj_result>>
    /\ XObjOnly

\* page_tree.rs 337-396: a Form: extract_xobjects(&form_resources).
XObjEnterForm ==
    /\ xobj_result = "running"
    /\ TopXObj.next <= Len(TopDict)
    /\ TopEntry.subtype = "Form"
    /\ IF Len(xobj_stack) >= MaxStack
          THEN /\ xobj_result' = "stack_overflow"
               /\ xobj_stack' = xobj_stack
          ELSE /\ xobj_stack' = Append(xobj_stack, XObjCall(TopDict[TopXObj.next]))
               /\ xobj_result' = xobj_result
    /\ UNCHANGED forms
    /\ XObjOnly

\* page_tree.rs 412, 398-407: the call returns and its caller inserts the
\* form and goes on with its next entry.
XObjReturn ==
    /\ xobj_result = "running"
    /\ TopXObj.next > Len(TopDict)
    /\ IF Len(xobj_stack) = 1
          THEN /\ xobj_stack' = <<>>
               /\ xobj_result' = "returned"
          ELSE /\ xobj_stack' = Advanced(SubSeq(xobj_stack, 1, Len(xobj_stack) - 1))
               /\ xobj_result' = xobj_result
    /\ UNCHANGED forms
    /\ XObjOnly

NextXObj ==
    \/ XObjSkip
    \/ XObjEnterForm
    \/ XObjReturn

InitSpecXObj ==
    InitXObj /\ IdleConvert /\ IdleDeref /\ IdleTree /\ IdleRender /\ IdleRange
    /\ IdleParse
    /\ IdleText
    /\ IdleXref
    /\ IdleZip
    /\ IdleBox
    /\ IdleCover
    /\ IdleHook
    /\ IdleQueue
    /\ IdleLimit
    /\ IdleAuth
    /\ IdleGs
    /\ IdleSpan
    /\ IdleBg
    /\ IdleContent

SpecXObj == InitSpecXObj /\ [][NextXObj]_vars

\* C6: a form that refers to itself, directly or through other forms, is not
\* entered again while it is active, and extract_xobjects returns.
C6_CyclesDetected ==
    /\ \A i, j \in 1..Len(xobj_stack) :
          i # j => xobj_stack[i].owner # xobj_stack[j].owner
    /\ xobj_result # "stack_overflow"

----------------------------------------------------------------------------
(* The operator loop of render_pdf_page and render_form_xobject            *)
(* (renderer/mod.rs 198-518, 527-757): q, Q, cm and Do.                    *)

\* The longest run of q operators that opens a page's content stream.
MaxQ == 33
\* The longest chain of forms nested in each other.
MaxChain == 9

RECURSIVE Repeat(_, _)
Repeat(op, k) == IF k = 0 THEN <<>> ELSE <<op>> \o Repeat(op, k - 1)

PageTails == {<<>>, <<"Q">>, <<"Q", "Q">>, <<"Do">>, <<"cm", "q", "Do", "Q", "Q">>}
PageOps == {Repeat("q", k) \o tail : k \in 0..MaxQ, tail \in PageTails}
FormOps == {<<"Do">>, <<"q", "cm", "Do", "Q">>, <<"q", "q", "Do", "Q">>}

\* renderer/mod.rs 217-220, 548-551: a frame starts with an empty stack.
RenderFrame(ops, ctm) == [ops |-> ops, state_stack |-> <<>>, ctm |-> ctm]
TopFrameR == frames[Len(frames)]
NextOp    == Head(TopFrameR.ops)
Stepped   == [frames EXCEPT ![Len(frames)].ops = Tail(@)]

RenderOnly == UNCHANGED <<varsConvert, varsDeref, varsTree, varsXObj,
                          varsRange, varsParse, varsText, varsXref, varsZip,
                          varsBox, varsCover, varsHook, varsQueue, varsLimit,
                          varsAuth, varsGs, varsSpan, varsBg, varsContent>>

InitRender ==
    /\ form_tree \in 0..MaxChain
    /\ form_ops \in FormOps
    /\ \E ops \in PageOps : frames = <<RenderFrame(ops, 0)>>
    /\ render_result = "running"

Interpreting == render_result = "running" /\ TopFrameR.ops # <<>>

\* renderer/mod.rs 228-230, 570-572.
GsSave ==
    /\ Interpreting
    /\ NextOp = "q"
    /\ frames' = [Stepped EXCEPT ![Len(frames)].state_stack = Append(@, TopFrameR.ctm)]
    /\ UNCHANGED <<form_tree, form_ops, render_result>>
    /\ RenderOnly

\* renderer/mod.rs 231-237, 573-579.
GsRestore ==
    /\ Interpreting
    /\ NextOp = "Q"
    /\ LET stack == TopFrameR.state_stack
       IN  frames' =
             IF stack = <<>>
                THEN Stepped
                ELSE [Stepped EXCEPT
                        ![Len(frames)].ctm = stack[Len(stack)],
                        ![Len(frames)].state_stack = SubSeq(stack, 1, Len(stack) - 1)]
    /\ UNCHANGED <<form_tree, form_ops, render_result>>
    /\ RenderOnly

\* renderer/mod.rs 238-250: the matrix is multiplied into the CTM.
CM ==
    /\ Interpreting
    /\ NextOp = "cm"
    /\ frames' = [Stepped EXCEPT ![Len(frames)].ctm = @ + 1]
    /\ UNCHANGED <<form_tree, form_ops, render_result>>
    /\ RenderOnly

\* renderer/mod.rs 449-487, 714-745: Do on a name the resources of the
\* frame hold a form for, or on any other name.
Do ==
    /\ Interpreting
    /\ NextOp = "Do"
    /\ frames' = IF Len(frames) - 1 < form_tree
                    THEN Append(Stepped, RenderFrame(form_ops, TopFrameR.ctm))
                    ELSE Stepped
    /\ UNCHANGED <<form_tree, form_ops, render_result>>
    /\ RenderOnly

\* renderer/mod.rs 747-756, 489-517: the stream is over.
RenderReturn ==
    /\ render_result = "running"
    /\ TopFrameR.ops = <<>>
    /\ frames' = SubSeq(frames, 1, Len(frames) - 1)
    /\ render_result' = IF Len(frames) = 1 THEN "Ok" ELSE render_result
    /\ UNCHANGED <<form_tree, form_ops>>
    /\ RenderOnly

NextRender ==
    \/ GsSave
    \/ GsRestore
    \/ CM
    \/ Do
    \/ RenderReturn

InitSpecRender ==
    InitRender /\ IdleConvert /\ IdleDeref /\ IdleTree /\ IdleXObj /\ IdleRange
    /\ IdleParse
    /\ IdleText
    /\ IdleXref
    /\ IdleZip
    /\ IdleBox
    /\ IdleCover
    /\ IdleHook
    /\ IdleQueue
    /\ IdleLimit
    /\ IdleAuth
    /\ IdleGs
    /\ IdleSpan
    /\ IdleBg
    /\ IdleContent

SpecRender == InitSpecRender /\ [][NextRender]_vars

\* C5: the frames of render_form_xobject never nest more than 8 deep.
C5_FormDepthBounded == Len(frames) - 1 <= 8

\* C7: the stack of saved graphics states of a frame never holds more than
\* 32 entries.
C7_StateStackBounded ==
    \A i \in 1..Len(frames) : Len(frames[i].state_stack) <= 32

----------------------------------------------------------------------------
(* The page range of convert_pdf (lib.rs 52-66) on a document of n pages.  *)

\* Page counts and range ends around the cap, and small ones.
Small == 3
NearCap == (PAGE_CAP - 1)..(PAGE_CAP + 2)

RangeStarts == (0..Small) \cup {UsizeMax - PAGE_CAP + 1, UsizeMax - PAGE_CAP + 2, UsizeMax}
RangeEnds   == (0..Small) \cup NearCap \cup {UsizeMax}
\* parse_pdf never yields a document without pages (parser/mod.rs 439-453).
PageCounts  == (1..Small) \cup NearCap

RangeOnly == UNCHANGED <<varsConvert, varsDeref, varsTree, varsXObj,
                         varsRender, varsParse, varsText, varsXref, varsZip,
                         varsBox, varsCover, varsHook, varsQueue, varsLimit,
                         varsAuth, varsGs, varsSpan, varsBg, varsContent>>

InitRange ==
    /\ range_in \in [a : RangeStarts, b : RangeEnds, n : PageCounts]
    /\ range_pc = "start"
    /\ range_page_id = 0
    /\ range_end = 0
    /\ range_pages = 0
    /\ range_result = "running"

\* lib.rs 52-54: start_page and end_page; `start_page + 1000` wraps around
\* in a build without overflow checks.
RangeStart ==
    /\ range_pc = "start"
    /\ range_pc' = "loop"
    /\ range_page_id' = StartPage(range_in.a)
    /\ range_end' = EndPage(range_in.a, range_in.b, range_in.n)
    /\ UNCHANGED <<range_in, range_pages, range_result>>
    /\ RangeOnly

\* lib.rs 54: `start_page + 1000` panics in a build with overflow checks.
RangeStartPanics ==
    /\ range_pc = "start"
    /\ CapOverflows(range_in.a)
    /\ range_pc' = "done"
    /\ range_result' = "panic"
    /\ UNCHANGED <<range_in, range_page_id, range_end, range_pages>>
    /\ RangeOnly

\* lib.rs 56-65: one page is rendered and added to the bundle.
RangeRender ==
    /\ range_pc = "loop"
    /\ range_page_id < range_end
    /\ range_pages' = range_pages + 1
    /\ range_page_id' = range_page_id + 1
    /\ UNCHANGED <<range_in, range_pc, range_end, range_result>>
    /\ RangeOnly

\* lib.rs 57-62: render_pdf_page fails and `?` returns its error.
RangeRenderFails ==
    /\ range_pc = "loop"
    /\ range_page_id < range_end
    /\ range_pc' = "done"
    /\ range_result' = "Err"
    /\ UNCHANGED <<range_in, range_page_id, range_end, range_pages>>
    /\ RangeOnly

\* lib.rs 68-70: the loop is over and the bundle is returned.
RangeReturn ==
    /\ range_pc = "loop"
    /\ range_page_id >= range_end
    /\ range_pc' = "done"
    /\ range_result' = "Ok"
    /\ UNCHANGED <<range_in, range_page_id, range_end, range_pages>>
    /\ RangeOnly

NextRange ==
    \/ RangeStart
    \/ RangeStartPanics
    \/ RangeRender
    \/ RangeRenderFails
    \/ RangeReturn

InitSpecRange ==
    InitRange /\ IdleConvert /\ IdleDeref /\ IdleTree /\ IdleXObj /\ IdleRender
    /\ IdleParse
    /\ IdleText
    /\ IdleXref
    /\ IdleZip
    /\ IdleBox
    /\ IdleCover
    /\ IdleHook
    /\ IdleQueue
    /\ IdleLimit
    /\ IdleAuth
    /\ IdleGs
    /\ IdleSpan
    /\ IdleBg
    /\ IdleContent

SpecRange == InitSpecRange /\ [][NextRange]_vars

Clamp(x, lo, hi) == Min(Max(x, lo), hi)

\* C9: a returned bundle holds the pages max(a,1) .. min(b, N), at most
\* 1000 of them, and none when that range is empty:
\* len(pages) = max(0, min(b, N, max(a,1) + 999) - max(a,1) + 1).
C9_PageCount ==
    range_result = "Ok" =>
        LET first == Max(range_in.a, 1)
            last  == Min(Min(range_in.b, range_in.n), first + PAGE_CAP - 1)
        IN  range_pages = Max(0, last - first + 1)

\* The count as first stated: clamp(b, 1, min(N, a+1000)) - max(a,1) + 1.
C9_ClaimedPageCount ==
    range_result = "Ok" =>
        range_pages = Clamp(range_in.b, 1, Min(range_in.n, range_in.a + PAGE_CAP))
                        - Max(range_in.a, 1) + 1

\* A range wider than the cap on a document longer than the cap.
C9_Witness ==
    /\ range_result = "Ok"
    /\ range_in.n > PAGE_CAP
    /\ range_in.b > PAGE_CAP
    /\ range_pages = PAGE_CAP

----------------------------------------------------------------------------
(* parse_pdf (parser/mod.rs 378-456) with the merged cross-reference table *)
(* of follow_prev_chain and the fallback extract_pages_from_xref, followed *)
(* by the page loop of convert_pdf; the same file is converted twice.      *)

\* Object numbers the cross-reference sections of the file speak about.
NIds == 2
\* What a section says about an object number: nothing, a free entry, an
\* entry in use whose offset lies past the end of the file, or an entry in
\* use for a Page dictionary, a Catalog dictionary with the /Pages of a
\* sound page tree, or an object that is no dictionary.
EntryKinds == {"absent", "free", "eof", "page", "catalog", "other"}
Sections == [1..NIds -> EntryKinds]

\* parse_xref_table: the entries of one section, in file order.
SectionEntries(section) ==
    SelectSeq([id \in 1..NIds |-> XRefEntry(id, section[id])],
              LAMBDA e : e.kind # "absent")

\* object_parser.rs 248-257: the older entries are inserted first and the
\* newer ones replace them, in a map keyed by (object_id, generation).
Merged(newest, older) ==
    {XRefEntry(id, IF newest[id] # "absent" THEN newest[id] ELSE older[id]) :
        id \in {i \in 1..NIds : newest[i] # "absent" \/ older[i] # "absent"}}

\* object_parser.rs 258: `merged.into_values().collect()` yields the
\* entries in the iteration order of a HashMap, which is not determined.
Orders(entries) ==
    {order \in [1..Cardinality(entries) -> entries] :
        \A i, j \in 1..Cardinality(entries) : i # j => order[i] # order[j]}

KindOf(xref, id) ==
    IF \E i \in 1..Len(xref) : xref[i].object_id = id
        THEN xref[CHOOSE i \in 1..Len(xref) : xref[i].object_id = id].kind
        ELSE "absent"

\* parse_trailer_and_catalog (parser/mod.rs 458-511): tree when /Root is a
\* catalog with a page tree; ref the object number when /Root is no
\* dictionary and is taken as the root of the pages itself, else 0.
PagesRoot(xref, root) ==
    CASE root = 0                       -> [tree |-> FALSE, ref |-> 0]
      [] KindOf(xref, root) = "catalog" -> [tree |-> TRUE, ref |-> 0]
      [] KindOf(xref, root) = "other"   -> [tree |-> FALSE, ref |-> root]
      [] OTHER                          -> [tree |-> FALSE, ref |-> 0]

\* A page as parse_page builds it from a sound tree.
TreePage(n)     == [page_number |-> n, width |-> 595, height |-> 842,
                    contents |-> <<"Tj">>]
TreePages == <<TreePage(0), TreePage(1)>>

\* parser/mod.rs 417-453.
DocumentPages(xref, root) ==
    LET pages_root == PagesRoot(xref, root)
        pages == IF pages_root.tree
                    THEN TreePages
                    ELSE ExtractPagesFromXref(xref, pages_root.ref)
    IN  IF pages = <<>> THEN [i \in 1..3 |-> FallbackPage(i)] ELSE pages

\* lib.rs 56-70 with the default page range: every page, in order.
Bundle(pages) ==
    [outcome |-> "Ok",
     pages |-> [k \in 1..Len(pages) |->
                  [page_number |-> k, width |-> pages[k].width,
                   height |-> pages[k].height, text_spans |-> pages[k].contents]]]

ParseOnly == UNCHANGED <<varsConvert, varsDeref, varsTree, varsXObj,
                         varsRender, varsRange, varsText, varsXref, varsZip,
                         varsBox, varsCover, varsHook, varsQueue, varsLimit,
                         varsAuth, varsGs, varsSpan, varsBg, varsContent>>

InitParse ==
    /\ parse_file \in [newest : Sections, older : {<<>>} \cup Sections, root : 0..NIds]
    /\ parse_pc = "xref"
    /\ parse_xref = <<>>
    /\ parse_doc = <<>>
    /\ parse_bundles = <<>>

\* PdfParser::parse: one section, kept in file order.
ParseXrefSingle ==
    /\ parse_pc = "xref"
    /\ parse_file.older = <<>>
    /\ parse_xref' = SectionEntries(parse_file.newest)
    /\ parse_pc' = "pages"
    /\ UNCHANGED <<parse_file, parse_doc, parse_bundles>>
    /\ ParseOnly

\* PdfParser::parse: the section /Prev names is merged in.
ParseXrefMerged ==
    /\ parse_pc = "xref"
    /\ parse_file.older # <<>>
    /\ parse_xref' \in Orders(Merged(parse_file.newest, parse_file.older))
    /\ parse_pc' = "pages"
    /\ UNCHANGED <<parse_file, parse_doc, parse_bundles>>
    /\ ParseOnly

\* parse_pdf: the catalog, the page tree or the fallback, the blank pages.
ParsePages ==
    /\ parse_pc = "pages"
    /\ parse_doc' = DocumentPages(parse_xref, parse_file.root)
    /\ parse_pc' = "render"
    /\ UNCHANGED <<parse_file, parse_xref, parse_bundles>>
    /\ ParseOnly

\* convert_pdf returns its bundle; the first call is followed by a second.
ParseReturn ==
    /\ parse_pc = "render"
    /\ parse_bundles' = Append(parse_bundles, Bundle(parse_doc))
    /\ parse_pc' = IF Len(parse_bundles) = 0 THEN "xref" ELSE "done"
    /\ parse_xref' = <<>>
    /\ parse_doc' = <<>>
    /\ UNCHANGED parse_file
    /\ ParseOnly

NextParse ==
    \/ ParseXrefSingle
    \/ ParseXrefMerged
    \/ ParsePages
    \/ ParseReturn

InitSpecParse ==
    InitParse /\ IdleConvert /\ IdleDeref /\ IdleTree /\ IdleXObj /\ IdleRender
    /\ IdleRange
    /\ IdleText
    /\ IdleXref
    /\ IdleZip
    /\ IdleBox
    /\ IdleCover
    /\ IdleHook
    /\ IdleQueue
    /\ IdleLimit
    /\ IdleAuth
    /\ IdleGs
    /\ IdleSpan
    /\ IdleBg
    /\ IdleContent

SpecParse == InitSpecParse /\ [][NextParse]_vars

\* C11: two calls of convert_pdf on the same bytes with the same
\* configuration return the same bundle.
C11_Idempotent ==
    Len(parse_bundles) = 2 => parse_bundles[1] = parse_bundles[2]

\* What the sections of the file say about an object number, the newest
\* section first.
FileKind(id) ==
    IF parse_file.older = <<>> \/ parse_file.newest[id] # "absent"
        THEN parse_file.newest[id]
        ELSE parse_file.older[id]

\* The trailer names a /Root that is a catalog with a page tree.
SoundFile == parse_file.root # 0 /\ FileKind(parse_file.root) = "catalog"

\* C14: a file whose trailer, cross-reference data or page tree is broken is
\* never answered with Ok and pages.
C14_ParseErrorSurfaces ==
    \A k \in 1..Len(parse_bundles) :
        (parse_bundles[k].outcome = "Ok" /\ Len(parse_bundles[k].pages) > 0)
            => SoundFile

----------------------------------------------------------------------------
(* TextExtractor (renderer/text.rs) as render_pdf_page and                 *)
(* render_form_xobject drive it (renderer/mod.rs 253-259, 314-356,         *)
(* 449-494, 548-756).  A text is the sequence of the Tj/TJ operators it    *)
(* was put together from, each numbered in the order it was met.           *)

MaxOps == 4

\* What a Tj/TJ operator shows: printable text, white space only, nothing.
TextKinds == {"text", "blank", "empty"}

\* A Tj/TJ operator: its text, whether its position continues the line of
\* the last one (text.rs 70-80), whether the graphics state differs from the
\* extractor's (text.rs 149-161).
TjOp(kind, near, changed) ==
    [op |-> "Tj", kind |-> kind, near |-> near, changed |-> changed,
     form |-> <<>>]
TextObjectOp ==
    [op |-> "BT", kind |-> "empty", near |-> FALSE, changed |-> FALSE,
     form |-> <<>>]
DoOp(form) ==
    [op |-> "Do", kind |-> "empty", near |-> FALSE, changed |-> FALSE,
     form |-> form]

\* The content streams of the Form XObjects a page may draw; the last one
\* draws a nested form between two texts of its own.
InnerForm == <<TjOp("text", FALSE, FALSE), TjOp("text", TRUE, FALSE)>>
TextForms ==
    { <<TjOp("text", FALSE, FALSE)>>,
      <<TjOp("text", FALSE, FALSE), TjOp("blank", FALSE, TRUE),
        TjOp("text", FALSE, FALSE)>>,
      <<TjOp("text", FALSE, FALSE), DoOp(InnerForm),
        TjOp("text", TRUE, FALSE)>> }

\* TextExtractor::new (text.rs 40-47).
NewExtractor == [segments |-> <<>>, current_segment |-> <<>>]

\* text.trim().is_empty() of a segment.
TrimIsEmpty(segment) == \A i \in 1..Len(segment) : segment[i].blank

\* TextExtractor::finalize_segment (text.rs 102-114).
FinalizeSegment(ex) ==
    IF ex.current_segment = <<>> THEN ex
    ELSE IF ~TrimIsEmpty(ex.current_segment[1])
        THEN [segments |-> Append(ex.segments, ex.current_segment[1]),
              current_segment |-> <<>>]
        ELSE [segments |-> ex.segments, current_segment |-> <<>>]

\* TextExtractor::update_state (text.rs 49-54).
UpdateState(ex, changed) ==
    IF ex.current_segment # <<>> /\ changed THEN FinalizeSegment(ex) ELSE ex

\* TextExtractor::add_text (text.rs 56-100); n is the number of the operator.
AddText(ex, kind, near, n) ==
    LET text == [n |-> n, blank |-> (kind = "blank")]
    IN  IF kind = "empty" THEN ex
        ELSE IF ex.current_segment # <<>> /\ near
            THEN [ex EXCEPT !.current_segment = <<Append(@[1], text)>>]
            ELSE [FinalizeSegment(ex) EXCEPT !.current_segment = <<<<text>>>>]

\* TextExtractor::merge_spans (text.rs 135-147).
MergeSpansMutKeepCurrent(ex, spans) == [ex EXCEPT !.segments = @ \o spans]
MergeSpans(ex, spans) ==
    [FinalizeSegment(ex) EXCEPT !.segments = @ \o spans]

\* TextExtractor::get_spans (text.rs 120-133).
GetSpans(ex) == ex.segments

\* The operator loop of render_form_xobject (renderer/mod.rs 548-756) from
\* operator i on; `seen` counts the Tj/TJ operators met.  The result is the
\* form's spans and the count.
RECURSIVE InterpretForm(_, _, _, _)
InterpretForm(ops, i, ex, seen) ==
    IF i > Len(ops)
        THEN [text_spans |-> GetSpans(FinalizeSegment(ex)), seen |-> seen]
    ELSE IF ops[i].op = "Tj"
        THEN InterpretForm(ops, i + 1,
                 AddText(UpdateState(ex, ops[i].changed),
                         ops[i].kind, ops[i].near, seen + 1),
                 seen + 1)
    ELSE IF ops[i].op = "BT"
        THEN InterpretForm(ops, i + 1, FinalizeSegment(ex), seen)
    ELSE LET nested == InterpretForm(ops[i].form, 1, NewExtractor, seen)
         IN  InterpretForm(ops, i + 1, MergeSpans(ex, nested.text_spans),
                           nested.seen)

\* render_form_xobject (renderer/mod.rs 524-757).
RenderFormText(form, seen) == InterpretForm(form, 1, NewExtractor, seen)

TextOnly == UNCHANGED <<varsConvert, varsDeref, varsTree, varsXObj,
                        varsRender, varsRange, varsParse, varsXref, varsZip,
                        varsBox, varsCover, varsHook, varsQueue, varsLimit,
                        varsAuth, varsGs, varsSpan, varsBg, varsContent>>

InitText ==
    /\ text_extractor = NewExtractor
    /\ text_seen = 0
    /\ text_ops = 0
    /\ text_pc = "ops"
    /\ text_spans = <<>>

\* renderer/mod.rs 314-356: a Tj or TJ operator of the page.
ShowText ==
    /\ text_pc = "ops"
    /\ text_ops < MaxOps
    /\ \E kind \in TextKinds, near \in BOOLEAN, changed \in BOOLEAN :
         text_extractor' =
             AddText(UpdateState(text_extractor, changed), kind, near,
                     text_seen + 1)
    /\ text_seen' = text_seen + 1
    /\ text_ops' = text_ops + 1
    /\ UNCHANGED <<text_pc, text_spans>>
    /\ TextOnly

\* renderer/mod.rs 252-259: BT and ET.
TextObject ==
    /\ text_pc = "ops"
    /\ text_ops < MaxOps
    /\ text_extractor' = FinalizeSegment(text_extractor)
    /\ text_ops' = text_ops + 1
    /\ UNCHANGED <<text_seen, text_pc, text_spans>>
    /\ TextOnly

\* renderer/mod.rs 449-487: Do on a Form XObject of the page.
DoForm ==
    /\ text_pc = "ops"
    /\ text_ops < MaxOps
    /\ \E form \in TextForms :
         LET form_result == RenderFormText(form, text_seen)
         IN  /\ text_extractor' =
                    MergeSpans(text_extractor, form_result.text_spans)
             /\ text_seen' = form_result.seen
    /\ text_ops' = text_ops + 1
    /\ UNCHANGED <<text_pc, text_spans>>
    /\ TextOnly

\* renderer/mod.rs 492-494: the end of the content stream.
TextReturn ==
    /\ text_pc = "ops"
    /\ text_extractor' = FinalizeSegment(text_extractor)
    /\ text_spans' = GetSpans(text_extractor')
    /\ text_pc' = "done"
    /\ UNCHANGED <<text_seen, text_ops>>
    /\ TextOnly

NextText ==
    \/ ShowText
    \/ TextObject
    \/ DoForm
    \/ TextReturn

InitSpecText ==
    /\ InitText
    /\ IdleConvert
    /\ IdleDeref
    /\ IdleTree
    /\ IdleXObj
    /\ IdleRender
    /\ IdleRange
    /\ IdleParse
    /\ IdleXref
    /\ IdleZip
    /\ IdleBox
    /\ IdleCover
    /\ IdleHook
    /\ IdleQueue
    /\ IdleLimit
    /\ IdleAuth
    /\ IdleGs
    /\ IdleSpan
    /\ IdleBg
    /\ IdleContent

SpecText == InitSpecText /\ [][NextText]_vars

\* The numbers of the operators a list of spans was put together from, in
\* the order the spans hold them.
RECURSIVE OperatorsOf(_, _, _)
OperatorsOf(spans, i, acc) ==
    IF i > Len(spans) THEN acc
    ELSE OperatorsOf(spans, i + 1,
             acc \o [k \in 1..Len(spans[i]) |-> spans[i][k].n])

Increasing(ns) == \A i, j \in 1..Len(ns) : i < j => ns[i] < ns[j]

----------------------------------------------------------------------------
(* PdfParser::find_and_parse_xref, parse_xref_at and follow_prev_chain     *)
(* (parser/object_parser.rs 179-309) on files with classic xref sections   *)
(* and no /XRefStm.  A section sits at an offset 1..NSections; any other   *)
(* offset holds nothing parse_xref_at accepts.  A key stands for one pair  *)
(* (object_id, generation).                                                *)

NSections == 3
NKeys == 2

XrefKeys == 1..NKeys
XrefOffsets == 1..NSections

\* A section: which keys it has an entry for, and the /Prev of its trailer
\* (0 when the trailer has none).
XrefSections ==
    [defines : SUBSET XrefKeys, prev : 0..(NSections + 1)]

\* An entry of a table; `offset` tells the entries of the different sections
\* for one key apart.
SectionEntry(key, offset) == [key |-> key, offset |-> offset]

\* parse_xref_at (object_parser.rs 203-221) and parse_xref_table (311-396):
\* self.xref after a successful parse at the offset.
ParseXrefAtOk(offset) == offset \in XrefOffsets
ParseXrefAt(offset) ==
    [entries |-> {SectionEntry(key, offset) :
                      key \in xref_file.sections[offset].defines},
     trailer |-> xref_file.sections[offset].prev]

\* object_parser.rs 248-258: a map keyed by (object_id, generation); the
\* older entries go in first and the current ones replace them.
MergeEntries(older, current) ==
    current \cup {e \in older : \A c \in current : c.key # e.key}

XrefOnly == UNCHANGED <<varsConvert, varsDeref, varsTree, varsXObj,
                        varsRender, varsRange, varsParse, varsText, varsZip,
                        varsBox, varsCover, varsHook, varsQueue, varsLimit,
                        varsAuth, varsGs, varsSpan, varsBg, varsContent>>

InitXref ==
    /\ xref_file \in [sections : [XrefOffsets -> XrefSections],
                      startxref : 0..(NSections + 1)]
    /\ xref_pc = "start"
    /\ xref_table = [entries |-> {}, trailer |-> 0]
    /\ xref_visited = {}
    /\ xref_parsed = <<>>

\* object_parser.rs 179-187: no startxref leaves the table empty; a section
\* that cannot be parsed is an error; else the chain is followed.
FindAndParseXref ==
    /\ xref_pc = "start"
    /\ IF xref_file.startxref = 0
          THEN /\ xref_pc' = "done"
               /\ UNCHANGED <<xref_table, xref_parsed>>
          ELSE IF ParseXrefAtOk(xref_file.startxref)
          THEN /\ xref_pc' = "loop"
               /\ xref_table' = ParseXrefAt(xref_file.startxref)
               /\ xref_parsed' = <<xref_file.startxref>>
          ELSE /\ xref_pc' = "err"
               /\ UNCHANGED <<xref_table, xref_parsed>>
    /\ UNCHANGED <<xref_file, xref_visited>>
    /\ XrefOnly

\* object_parser.rs 226-235: the /Prev of self.xref.trailer.
PrevOffset == xref_table.trailer
FollowsPrev == PrevOffset > 0 /\ PrevOffset \notin xref_visited

\* object_parser.rs 236-271: one round of the loop that parses the section
\* at /Prev and merges it; the trailer kept is the current one.
FollowPrev ==
    /\ xref_pc = "loop"
    /\ FollowsPrev
    /\ ParseXrefAtOk(PrevOffset)
    /\ xref_visited' = xref_visited \cup {PrevOffset}
    /\ xref_parsed' = Append(xref_parsed, PrevOffset)
    /\ xref_table' =
         [entries |-> MergeEntries(ParseXrefAt(PrevOffset).entries,
                                   xref_table.entries),
          trailer |-> xref_table.trailer]
    /\ UNCHANGED <<xref_file, xref_pc>>
    /\ XrefOnly

\* object_parser.rs 299-305: the section at /Prev cannot be parsed; the
\* current table is restored and the loop left.
FollowPrevFails ==
    /\ xref_pc = "loop"
    /\ FollowsPrev
    /\ ~ParseXrefAtOk(PrevOffset)
    /\ xref_visited' = xref_visited \cup {PrevOffset}
    /\ xref_pc' = "done"
    /\ UNCHANGED <<xref_file, xref_table, xref_parsed>>
    /\ XrefOnly

\* object_parser.rs 232-235: no /Prev, or one that was visited.
PrevChainEnds ==
    /\ xref_pc = "loop"
    /\ ~FollowsPrev
    /\ xref_pc' = "done"
    /\ UNCHANGED <<xref_file, xref_table, xref_visited, xref_parsed>>
    /\ XrefOnly

NextXref ==
    \/ FindAndParseXref
    \/ FollowPrev
    \/ FollowPrevFails
    \/ PrevChainEnds

InitSpecXref ==
    /\ InitXref
    /\ IdleConvert
    /\ IdleDeref
    /\ IdleTree
    /\ IdleXObj
    /\ IdleRender
    /\ IdleRange
    /\ IdleParse
    /\ IdleText
    /\ IdleZip
    /\ IdleBox
    /\ IdleCover
    /\ IdleHook
    /\ IdleQueue
    /\ IdleLimit
    /\ IdleAuth
    /\ IdleGs
    /\ IdleSpan
    /\ IdleBg
    /\ IdleContent

SpecXref == InitSpecXref /\ [][NextXref]_vars

\* The sections of the file's /Prev chain from an offset on, the most recent
\* first: it ends at a trailer without /Prev, at an offset that holds no
\* section, or where it would come back to a section it has.
RECURSIVE PrevChain(_, _)
PrevChain(offset, chain) ==
    IF offset \notin XrefOffsets \/ \E i \in 1..Len(chain) : chain[i] = offset
        THEN chain
        ELSE PrevChain(xref_file.sections[offset].prev, Append(chain, offset))

\* The entry the chain has for a key: that of the most recent section with
\* one, or none.
ChainEntry(chain, key) ==
    LET having == {i \in 1..Len(chain) :
                      key \in xref_file.sections[chain[i]].defines}
    IN  IF having = {} THEN {}
        ELSE {SectionEntry(key,
                 chain[CHOOSE i \in having : \A j \in having : i <= j])}

\* C16: after the /Prev chain was followed, the table has an entry for every
\* (object_id, generation) that a section of the chain has one for, and it
\* is the entry of the most recent such section.
C16_MergedTableComplete ==
    xref_pc = "done" =>
        xref_table.entries =
            UNION {ChainEntry(PrevChain(xref_file.startxref, <<>>), key) :
                      key \in XrefKeys}

\* C17: no offset is parsed twice while the chain is followed, and no more
\* than 32 sections are parsed.
C17_PrevChainGuarded ==
    /\ \A i, j \in 1..Len(xref_parsed) : i # j => xref_parsed[i] # xref_parsed[j]
    /\ Len(xref_parsed) <= 32

----------------------------------------------------------------------------
(* ZipBombDetector::check_buffer (util/zip_bomb.rs 153-170).  The sizes    *)
(* it works on go up to 2^64, so a number is held as [m, k] and stands for *)
(* m * 2^k; the arithmetic below is exact on such numbers.                 *)

Num(m, k) == [m |-> m, k |-> k]

RECURSIVE Pow2(_)
Pow2(k) == IF k = 0 THEN 1 ELSE 2 * Pow2(k - 1)

\* data.len() of the buffers: empty, one and two bytes, the two sizes of
\* integration_tests.rs 7-20, the sizes around 100 MiB / 100, and buffers
\* of 4 GiB and 8 GiB.
BufferSizes ==
    {Num(0, 0), Num(1, 0), Num(2, 0), Num(1000, 0), Num(11000000, 0),
     Num(1, 20), Num(1048577, 0), Num(1, 32), Num(1, 33)}

\* self.max_ratio, a u32: the default of with_limit_100_to_1, and others.
MaxRatios == {Num(1, 0), Num(DEFAULT_MAX_RATIO, 0), Num(1, 27), Num(1, 31)}

\* The product of two numbers, as the integers have it.
Product(x, y) == Num(x.m * y.m, x.k + y.k)

\* `as u64 * as u64`: the product does not fit 64 bits, and what is left of
\* it when the multiplication wraps.
OverflowsU64(x) ==
    x.m # 0 /\ (x.k >= 64 \/ (64 - x.k < 31 /\ x.m >= Pow2(64 - x.k)))
WrappedU64(x) ==
    IF x.k >= 64 THEN Num(0, 0)
    ELSE IF 64 - x.k < 31 THEN Num(x.m % Pow2(64 - x.k), x.k)
    ELSE x

\* zip_bomb.rs 162: `max_decompressed > MAX_DECOMPRESSED_SIZE as u64`;
\* 2^27 is more than 100 MiB.
ExceedsCeiling(x) ==
    IF x.m = 0 THEN FALSE
    ELSE IF x.k >= 27 THEN TRUE
    ELSE x.m > MAX_DECOMPRESSED_SIZE \div Pow2(x.k)

\* data.len() < 2.
LessThanTwo(x) == x.m = 0 \/ (x.k = 0 /\ x.m < 2)

ZipOnly == UNCHANGED <<varsConvert, varsDeref, varsTree, varsXObj,
                       varsRender, varsRange, varsParse, varsText, varsXref,
                       varsBox, varsCover, varsHook, varsQueue, varsLimit,
                       varsAuth, varsGs, varsSpan, varsBg, varsContent>>

InitZip ==
    /\ zip_input \in [data_len : BufferSizes, suspected_compressed : BOOLEAN,
                      max_ratio : MaxRatios]
    /\ zip_checks \in BOOLEAN
    /\ zip_result = "running"

\* check_buffer (zip_bomb.rs 153-170).
CheckBuffer ==
    /\ zip_result = "running"
    /\ LET max_decompressed == Product(zip_input.data_len, zip_input.max_ratio)
       IN  zip_result' =
             IF ~zip_input.suspected_compressed \/ LessThanTwo(zip_input.data_len)
                 THEN "Ok"
             ELSE IF OverflowsU64(max_decompressed) /\ zip_checks
                 THEN "panic"
             ELSE IF ExceedsCeiling(WrappedU64(max_decompressed))
                 THEN "Err_ZipBomb"
             ELSE "Ok"
    /\ UNCHANGED <<zip_input, zip_checks>>
    /\ ZipOnly

NextZip == CheckBuffer

InitSpecZip ==
    /\ InitZip
    /\ IdleConvert
    /\ IdleDeref
    /\ IdleTree
    /\ IdleXObj
    /\ IdleRender
    /\ IdleRange
    /\ IdleParse
    /\ IdleText
    /\ IdleXref
    /\ IdleBox
    /\ IdleCover
    /\ IdleHook
    /\ IdleQueue
    /\ IdleLimit
    /\ IdleAuth
    /\ IdleGs
    /\ IdleSpan
    /\ IdleBg
    /\ IdleContent

SpecZip == InitSpecZip /\ [][NextZip]_vars

\* C19: check_buffer answers a buffer suspected of being compressed with
\* Err(ZipBomb) exactly when its size times max_ratio is more than 100 MiB;
\* every other buffer is accepted.
C19_CheckBufferLaw ==
    zip_result # "running" =>
        zip_result =
            IF /\ zip_input.suspected_compressed
               /\ ExceedsCeiling(Product(zip_input.data_len, zip_input.max_ratio))
                THEN "Err_ZipBomb"
                ELSE "Ok"

----------------------------------------------------------------------------
(* MediaBox and CropBox on the way from the root Pages node to a page:     *)
(* parse_pages_node (parser/page_tree.rs 76-137) and parse_page (157-206). *)

MaxAncestors == 2

\* The rectangles of the files: A4, and a smaller one off the origin.
Rects == {<<0, 0, 595, 842>>, <<10, 20, 210, 120>>}

\* The value of a /MediaBox or /CropBox key: none, an array written in the
\* dictionary, or a reference to an object that holds the array.
NoBox          == [tag |-> "none", rect |-> <<>>]
ArrayBox(rect) == [tag |-> "array", rect |-> rect]
RefBox(rect)   == [tag |-> "ref", rect |-> rect]
BoxValues == {NoBox, RefBox(<<0, 0, 595, 842>>)} \cup {ArrayBox(r) : r \in Rects}

\* A Pages node or a page, as far as its boxes go.
BoxNodes == [mediabox : BoxValues, cropbox : BoxValues]

\* PdfObject::as_array (parser/object_parser.rs 77-82): Some for an array,
\* None for everything else; <<>> stands for None.
AsArray(value) == IF value.tag = "array" THEN value.rect ELSE <<>>

\* Option::or_else.
OrElse(first, second) == IF first # <<>> THEN first ELSE second

\* page_tree.rs 163-164.
DefaultSize == [width |-> 612, height |-> 792]

\* page_tree.rs 174-186 and 194-206: the size a box gives, if it gives one.
SizeFrom(box_array, size) ==
    IF Len(box_array) >= 4
        THEN [width  |-> Max(box_array[3] - box_array[1], 1),
              height |-> Max(box_array[4] - box_array[2], 1)]
        ELSE size

BoxOnly == UNCHANGED <<varsConvert, varsDeref, varsTree, varsXObj,
                       varsRender, varsRange, varsParse, varsText, varsXref,
                       varsZip, varsCover, varsHook, varsQueue, varsLimit,
                       varsAuth, varsGs, varsSpan, varsBg, varsContent>>

\* parse_all_pages (page_tree.rs 24-29): InheritedProps::default().
InitBox ==
    /\ box_path \in UNION {[1..n -> BoxNodes] : n \in 1..(MaxAncestors + 1)}
    /\ box_depth = 0
    /\ box_inherited = [mediabox |-> <<>>, cropbox |-> <<>>]
    /\ box_page = <<>>

\* parse_pages_node (page_tree.rs 83-102): what the node hands down.
ParsePagesNode ==
    /\ box_depth < Len(box_path) - 1
    /\ LET dict == box_path[box_depth + 1]
       IN  box_inherited' =
             [mediabox |-> OrElse(AsArray(dict.mediabox), box_inherited.mediabox),
              cropbox  |-> OrElse(AsArray(dict.cropbox), box_inherited.cropbox)]
    /\ box_depth' = box_depth + 1
    /\ UNCHANGED <<box_path, box_page>>
    /\ BoxOnly

\* parse_page (page_tree.rs 163-206).
ParsePageBoxes ==
    /\ box_depth = Len(box_path) - 1
    /\ LET dict == box_path[box_depth + 1]
           mediabox == OrElse(AsArray(dict.mediabox), box_inherited.mediabox)
           cropbox  == OrElse(AsArray(dict.cropbox), box_inherited.cropbox)
       IN  box_page' = <<SizeFrom(cropbox, SizeFrom(mediabox, DefaultSize))>>
    /\ box_depth' = box_depth + 1
    /\ UNCHANGED <<box_path, box_inherited>>
    /\ BoxOnly

NextBox ==
    \/ ParsePagesNode
    \/ ParsePageBoxes

InitSpecBox ==
    /\ InitBox
    /\ IdleConvert
    /\ IdleDeref
    /\ IdleTree
    /\ IdleXObj
    /\ IdleRender
    /\ IdleRange
    /\ IdleParse
    /\ IdleText
    /\ IdleXref
    /\ IdleZip
    /\ IdleCover
    /\ IdleHook
    /\ IdleQueue
    /\ IdleLimit
    /\ IdleAuth
    /\ IdleGs
    /\ IdleSpan
    /\ IdleBg
    /\ IdleContent

SpecBox == InitSpecBox /\ [][NextBox]_vars

\* The rectangle of the nearest node, from the page upwards, that has the
\* box; <<>> when none has it.  which is "mediabox" or "cropbox".
RECURSIVE NearestBox(_, _)
NearestBox(which, i) ==
    IF i = 0 THEN <<>>
    ELSE IF box_path[i][which].tag # "none" THEN box_path[i][which].rect
    ELSE NearestBox(which, i - 1)

RectSize(rect) == [width |-> rect[3] - rect[1], height |-> rect[4] - rect[2]]

\* C20: the page's size is that of its own MediaBox, else of the MediaBox of
\* the nearest ancestor that has one, else 612 x 792, unless the page or an
\* ancestor has a CropBox, whose size it is then.
C20_BoxInheritance ==
    box_page # <<>> =>
        box_page[1] =
            LET mediabox == NearestBox("mediabox", Len(box_path))
                cropbox  == NearestBox("cropbox", Len(box_path))
            IN  IF cropbox # <<>> THEN RectSize(cropbox)
                ELSE IF mediabox # <<>> THEN RectSize(mediabox)
                ELSE DefaultSize

----------------------------------------------------------------------------
(* Covered text: CoveredTextDetector (render/covered_text.rs) next to the  *)
(* interpreter loop of render_pdf_page, which is what builds the output.   *)

CoverOnly == UNCHANGED <<varsConvert, varsDeref, varsTree, varsXObj,
                         varsRender, varsRange, varsParse, varsText,
                         varsXref, varsZip, varsBox, varsHook, varsQueue,
                         varsLimit, varsAuth, varsGs, varsSpan, varsBg,
                         varsContent>>

\* CharBox::new (covered_text.rs 46-53).
CharBox(x_min, y_min, x_max, y_max) ==
    [x_min |-> Min(x_min, x_max), y_min |-> Min(y_min, y_max),
     x_max |-> Max(x_min, x_max), y_max |-> Max(y_min, y_max)]

\* CharBox::contains (covered_text.rs 62-64).
Contains(box, x, y) ==
    x >= box.x_min /\ x <= box.x_max /\ y >= box.y_min /\ y <= box.y_max

\* CharBox::intersects (covered_text.rs 66-71).
Intersects(box, other) ==
    /\ box.x_min <= other.x_max
    /\ box.x_max >= other.x_min
    /\ box.y_min <= other.y_max
    /\ box.y_max >= other.y_min

\* CornerVisibility::all_visible (covered_text.rs 10-17).
AllVisible ==
    [top_left |-> TRUE, top_right |-> TRUE,
     bottom_left |-> TRUE, bottom_right |-> TRUE]

\* CornerVisibility::is_any_visible (covered_text.rs 28-30).
IsAnyVisible(v) ==
    v.top_left \/ v.top_right \/ v.bottom_left \/ v.bottom_right

\* CoveredTextDetector::new (covered_text.rs 87-93).
NewDetector == [char_boxes |-> <<>>, char_visibility |-> <<>>]

\* CoveredTextDetector::add_character (covered_text.rs 95-100).
AddCharacter(detector, box) ==
    [char_boxes      |-> Append(detector.char_boxes, box),
     char_visibility |-> Append(detector.char_visibility, AllVisible)]

\* update_visibility_after_non_char (covered_text.rs 110-123), one character.
CoveredCorners(char_box, visibility, non_char_box) ==
    IF Intersects(char_box, non_char_box)
    THEN [top_left     |-> visibility.top_left
                           /\ ~Contains(non_char_box, char_box.x_min, char_box.y_max),
          top_right    |-> visibility.top_right
                           /\ ~Contains(non_char_box, char_box.x_max, char_box.y_max),
          bottom_left  |-> visibility.bottom_left
                           /\ ~Contains(non_char_box, char_box.x_min, char_box.y_min),
          bottom_right |-> visibility.bottom_right
                           /\ ~Contains(non_char_box, char_box.x_max, char_box.y_min)]
    ELSE visibility

\* CoveredTextDetector::add_non_character (covered_text.rs 102-108).
AddNonCharacter(detector, box) ==
    [detector EXCEPT !.char_visibility =
        [i \in DOMAIN detector.char_visibility |->
            CoveredCorners(detector.char_boxes[i], detector.char_visibility[i], box)]]

\* CoveredTextDetector::is_char_fully_covered (covered_text.rs 129-134);
\* char_index counts from 1 here.
IsCharFullyCovered(detector, char_index) ==
    IF char_index \in DOMAIN detector.char_visibility
    THEN ~IsAnyVisible(detector.char_visibility[char_index])
    ELSE FALSE

\* The longest page, in drawing operations.
MaxDraw == 3

\* The boxes the drawing operations of a page choose from.
CoverBoxes ==
    {CharBox(0, 0, 1, 1), CharBox(0, 0, 2, 2),
     CharBox(0, 0, 1, 2), CharBox(1, 0, 2, 2)}

\* DrawingOp (covered_text.rs 80-84): a shown character or a painted shape.
DrawingOps == [kind : {"Char", "NonChar"}, box : CoverBoxes]

\* render_pdf_page (renderer/mod.rs 198-226): the page's operations are
\* parsed and the loop starts with an empty text extractor.
InitCover ==
    /\ cover_config \in BOOLEAN
    /\ cover_ops \in SeqsUpTo(DrawingOps, MaxDraw)
    /\ cover_next = 1
    /\ cover_spans = <<>>
    /\ cover_pc = "loop"

\* ContentOp::Tj | ContentOp::TJ (renderer/mod.rs 311-356): the text goes
\* to the extractor; nothing is recorded about where it was painted.
CoverShowText ==
    /\ cover_pc = "loop"
    /\ cover_next <= Len(cover_ops)
    /\ cover_ops[cover_next].kind = "Char"
    /\ cover_spans' = Append(cover_spans, cover_next)
    /\ cover_next' = cover_next + 1
    /\ UNCHANGED <<cover_config, cover_ops, cover_pc>>
    /\ CoverOnly

\* ContentOp::RE then ContentOp::F (renderer/mod.rs 429-448): the filled
\* rectangle is looked at for the background colour and for nothing else.
CoverFill ==
    /\ cover_pc = "loop"
    /\ cover_next <= Len(cover_ops)
    /\ cover_ops[cover_next].kind = "NonChar"
    /\ cover_next' = cover_next + 1
    /\ UNCHANGED <<cover_config, cover_ops, cover_spans, cover_pc>>
    /\ CoverOnly

\* renderer/mod.rs 490-517: get_spans and the RenderedPage.
CoverReturn ==
    /\ cover_pc = "loop"
    /\ cover_next > Len(cover_ops)
    /\ cover_pc' = "done"
    /\ UNCHANGED <<cover_config, cover_ops, cover_next, cover_spans>>
    /\ CoverOnly

NextCover ==
    \/ CoverShowText
    \/ CoverFill
    \/ CoverReturn

InitSpecCover ==
    /\ InitCover
    /\ IdleConvert
    /\ IdleDeref
    /\ IdleTree
    /\ IdleXObj
    /\ IdleRender
    /\ IdleRange
    /\ IdleParse
    /\ IdleText
    /\ IdleXref
    /\ IdleZip
    /\ IdleBox
    /\ IdleHook
    /\ IdleQueue
    /\ IdleLimit
    /\ IdleAuth
    /\ IdleGs
    /\ IdleSpan
    /\ IdleBg
    /\ IdleContent

SpecCover == InitSpecCover /\ [][NextCover]_vars

\* The detector fed with the first n operations in paint order.
RECURSIVE Detect(_, _)
Detect(ops, n) ==
    IF n = 0 THEN [detector |-> NewDetector, index |-> <<>>]
    ELSE LET before == Detect(ops, n - 1)
         IN  IF ops[n].kind = "Char"
             THEN [detector |-> AddCharacter(before.detector, ops[n].box),
                   index    |-> Append(before.index, n)]
             ELSE [detector |-> AddNonCharacter(before.detector, ops[n].box),
                   index    |-> before.index]

\* The operation indices of the characters that end fully covered.
CoveredChars(ops) ==
    LET run == Detect(ops, Len(ops))
    IN  {run.index[i] : i \in {j \in DOMAIN run.index :
                                  IsCharFullyCovered(run.detector, j)}}

\* C21: with correct_text_visibility on, the output of a page holds exactly
\* the characters that keep a visible corner: one whose four corners are all
\* covered by shapes painted after it is left out, every other one is kept.
C21_CoveredTextOmitted ==
    (cover_pc = "done" /\ cover_config) =>
        {cover_spans[i] : i \in DOMAIN cover_spans} =
            {n \in DOMAIN cover_ops : cover_ops[n].kind = "Char"}
                \ CoveredChars(cover_ops)

----------------------------------------------------------------------------
(* Webhook delivery: WebhookService::send_webhook (ode-api webhooks.rs).   *)

HookOnly == UNCHANGED <<varsConvert, varsDeref, varsTree, varsXObj,
                        varsRender, varsRange, varsParse, varsText, varsXref,
                        varsZip, varsBox, varsCover, varsQueue, varsLimit,
                        varsAuth, varsGs, varsSpan, varsBg, varsContent>>

\* webhooks.rs 7-8.
MAX_RETRIES == 5
INITIAL_BACKOFF_MS == 1000

\* What one POST can come to: a status code, or no response at all.
HttpStatuses == {200, 204, 400, 404, 500, 503}
Responses == HttpStatuses \cup {0}

\* attempt_delivery (webhooks.rs 89-108); 0 stands for a request that got
\* no response (reqwest error, the 30 s timeout).
AttemptResult(response) ==
    IF response = 0 THEN [kind |-> "RequestFailed", code |-> 0]
    ELSE IF response >= 200 /\ response <= 299 THEN [kind |-> "Ok", code |-> response]
    ELSE [kind |-> "HttpError", code |-> response]

\* webhooks.rs 49-50.
InitHook ==
    /\ hook_pc = "attempt"
    /\ hook_attempt = 0
    /\ hook_backoff = INITIAL_BACKOFF_MS
    /\ hook_log = <<>>
    /\ hook_slept = <<>>
    /\ hook_result = "running"

\* One round of the loop up to its return or its sleep (webhooks.rs 52-85).
AttemptDelivery ==
    /\ hook_pc = "attempt"
    /\ \E response \in Responses :
        LET result  == AttemptResult(response)
            attempt == hook_attempt + 1
        IN  /\ hook_attempt' = attempt
            /\ hook_log' = Append(hook_log, response)
            /\ IF result.kind = "Ok"
               THEN hook_pc' = "done" /\ hook_result' = "Ok"
               ELSE IF result.kind = "HttpError" /\ result.code >= 500
               THEN IF attempt >= MAX_RETRIES
                    THEN /\ hook_pc' = "done"
                         /\ hook_result' = "Err_MaxRetriesExceeded"
                    ELSE /\ hook_pc' = "sleep"
                         /\ hook_result' = hook_result
               ELSE /\ hook_pc' = "done"
                    /\ hook_result' = "Err_" \o result.kind
    /\ UNCHANGED <<hook_backoff, hook_slept>>
    /\ HookOnly

\* tokio::time::sleep(backoff), then backoff *= 2 (webhooks.rs 77-78).
SleepBackoff ==
    /\ hook_pc = "sleep"
    /\ hook_slept' = Append(hook_slept, hook_backoff)
    /\ hook_backoff' = hook_backoff * 2
    /\ hook_pc' = "attempt"
    /\ UNCHANGED <<hook_attempt, hook_log, hook_result>>
    /\ HookOnly

NextHook ==
    \/ AttemptDelivery
    \/ SleepBackoff

InitSpecHook ==
    /\ InitHook
    /\ IdleConvert
    /\ IdleDeref
    /\ IdleTree
    /\ IdleXObj
    /\ IdleRender
    /\ IdleRange
    /\ IdleParse
    /\ IdleText
    /\ IdleXref
    /\ IdleZip
    /\ IdleBox
    /\ IdleCover
    /\ IdleQueue
    /\ IdleLimit
    /\ IdleAuth
    /\ IdleGs
    /\ IdleSpan
    /\ IdleBg
    /\ IdleContent

SpecHook == InitSpecHook /\ [][NextHook]_vars

Is5xx(response) == response >= 500 /\ response <= 599

RECURSIVE Pow(_, _)
Pow(b, n) == IF n = 0 THEN 1 ELSE b * Pow(b, n - 1)

\* The retries made so far: the delivery attempts after the first.
Retries == IF hook_log = <<>> THEN 0 ELSE Len(hook_log) - 1

\* C22: a delivery that keeps meeting 5xx is retried after 1 s, 2 s, 4 s, ...
\* up to 5 retries and then ends with MaxRetriesExceeded; a 2xx response
\* ends it at once with Ok, and any other failure ends it without a retry.
C22_RetriesWithBackoff ==
    /\ \A i \in DOMAIN hook_slept :
           hook_slept[i] = INITIAL_BACKOFF_MS * Pow(2, i - 1)
    /\ \A i \in DOMAIN hook_log :
           i < Len(hook_log) => Is5xx(hook_log[i])
    /\ Retries <= MAX_RETRIES
    /\ hook_pc = "done" =>
           LET last == hook_log[Len(hook_log)]
           IN  /\ Len(hook_slept) = Retries
               /\ hook_result = "Ok" <=> AttemptResult(last).kind = "Ok"
               /\ hook_result = "Err_MaxRetriesExceeded" <=>
                      (Is5xx(last) /\ Retries = MAX_RETRIES)
               /\ Is5xx(last) => hook_result = "Err_MaxRetriesExceeded"

----------------------------------------------------------------------------
(* Work queue: TaskQueue (ode-api task_queue.rs) under concurrent          *)
(* submit_conversion requests (routes.rs) and a consumer calling           *)
(* dequeue_job.                                                            *)

QueueOnly == UNCHANGED <<varsConvert, varsDeref, varsTree, varsXObj,
                         varsRender, varsRange, varsParse, varsText,
                         varsXref, varsZip, varsBox, varsCover, varsHook,
                         varsLimit, varsAuth, varsGs, varsSpan, varsBg,
                         varsContent>>

\* The number of submit_conversion requests.
NJobs == 3

\* serde_json::to_string(&ConversionTask { job_id }) (task_queue.rs 24-26).
TaskJson(job_id) == <<"job_id", job_id>>

\* serde_json::from_str::<ConversionTask> (task_queue.rs 35-37).
TaskFromJson(task_json) == [job_id |-> task_json[2]]

\* The variant of RPUSH that inserts at the head of the list.
RPushMutHead(list, element) == <<element>> \o list

\* RPUSH (task_queue.rs 28): the element goes to the tail of the list.
RPush(list, element) == Append(list, element)

\* LPOP (task_queue.rs 33): the head of the list is taken off.
LPop(list) == [popped |-> Head(list), rest |-> Tail(list)]

\* main.rs 88-100: an empty queue; every request is about to start.
InitQueue ==
    /\ queue_reqs = [r \in 1..NJobs |-> "start"]
    /\ queue_jobs = {}
    /\ queue_list = <<>>
    /\ queue_log = <<>>

\* Uuid::new_v4 and Database::create_job (routes.rs 233-249, db.rs 78-110);
\* request r draws the id r.
CreateJob ==
    /\ \E r \in DOMAIN queue_reqs :
        /\ queue_reqs[r] = "start"
        /\ queue_jobs' = queue_jobs \cup {r}
        /\ queue_reqs' = [queue_reqs EXCEPT ![r] = "created"]
        /\ queue_log' = Append(queue_log, [event |-> "create_job", job_id |-> r])
    /\ UNCHANGED queue_list
    /\ QueueOnly

\* create_job fails: 500 database_error (routes.rs 250-255).
CreateJobFails ==
    /\ \E r \in DOMAIN queue_reqs :
        /\ queue_reqs[r] = "start"
        /\ queue_reqs' = [queue_reqs EXCEPT ![r] = "database_error"]
    /\ UNCHANGED <<queue_jobs, queue_list, queue_log>>
    /\ QueueOnly

\* TaskQueue::enqueue_job under the queue's mutex, then 202 Accepted
\* (routes.rs 258-275, task_queue.rs 23-30).
EnqueueJob ==
    /\ \E r \in DOMAIN queue_reqs :
        /\ queue_reqs[r] = "created"
        /\ queue_list' = RPush(queue_list, TaskJson(r))
        /\ queue_reqs' = [queue_reqs EXCEPT ![r] = "accepted"]
        /\ queue_log' = Append(queue_log, [event |-> "enqueue_job", job_id |-> r])
    /\ UNCHANGED queue_jobs
    /\ QueueOnly

\* RPUSH fails: 500 queue_error (routes.rs 261-266); the row stays.
EnqueueJobFails ==
    /\ \E r \in DOMAIN queue_reqs :
        /\ queue_reqs[r] = "created"
        /\ queue_reqs' = [queue_reqs EXCEPT ![r] = "queue_error"]
    /\ UNCHANGED <<queue_jobs, queue_list, queue_log>>
    /\ QueueOnly

\* TaskQueue::dequeue_job (task_queue.rs 32-42) on a list that holds a task;
\* on an empty list it returns Ok(None) and changes nothing.
DequeueJob ==
    /\ queue_list # <<>>
    /\ LET pop == LPop(queue_list)
       IN  /\ queue_list' = pop.rest
           /\ queue_log' = Append(queue_log,
                  [event |-> "dequeue_job", job_id |-> TaskFromJson(pop.popped).job_id])
    /\ UNCHANGED <<queue_reqs, queue_jobs>>
    /\ QueueOnly

NextQueue ==
    \/ CreateJob
    \/ CreateJobFails
    \/ EnqueueJob
    \/ EnqueueJobFails
    \/ DequeueJob

InitSpecQueue ==
    /\ InitQueue
    /\ IdleConvert
    /\ IdleDeref
    /\ IdleTree
    /\ IdleXObj
    /\ IdleRender
    /\ IdleRange
    /\ IdleParse
    /\ IdleText
    /\ IdleXref
    /\ IdleZip
    /\ IdleBox
    /\ IdleCover
    /\ IdleHook
    /\ IdleLimit
    /\ IdleAuth
    /\ IdleGs
    /\ IdleSpan
    /\ IdleBg
    /\ IdleContent

SpecQueue == InitSpecQueue /\ [][NextQueue]_vars

\* The job ids of the events of one kind, in the order they happened.
JobIdsOf(event) ==
    LET picked == SelectSeq(queue_log, LAMBDA e : e.event = event)
    IN  [i \in DOMAIN picked |-> picked[i].job_id]

\* C23: dequeue hands the job ids out in exactly the order of their
\* enqueue, each at most once, and every id on the queue was put there
\* after its job row was written.
C23_Fifo ==
    LET enqueued == JobIdsOf("enqueue_job")
        handed   == JobIdsOf("dequeue_job")
    IN  /\ Len(handed) <= Len(enqueued)
        /\ handed = SubSeq(enqueued, 1, Len(handed))
        /\ \A i, j \in DOMAIN handed : handed[i] = handed[j] => i = j
        /\ \A i \in DOMAIN queue_log :
               queue_log[i].event = "enqueue_job" =>
                   \E j \in 1..(i - 1) :
                       queue_log[j] = [event |-> "create_job",
                                       job_id |-> queue_log[i].job_id]

\* Two ids handed out in the order of their enqueue, which is not the order
\* in which their jobs were created.
C23_Witness ==
    /\ Len(JobIdsOf("dequeue_job")) >= 2
    /\ JobIdsOf("create_job")[1] = JobIdsOf("dequeue_job")[2]
    /\ JobIdsOf("create_job")[2] = JobIdsOf("dequeue_job")[1]

----------------------------------------------------------------------------
(* Rate limiting: RateLimiter::check_rate_limit (ode-api rate_limit.rs)    *)
(* called by concurrent requests while the clock runs.                     *)

LimitOnly == UNCHANGED <<varsConvert, varsDeref, varsTree, varsXObj,
                         varsRender, varsRange, varsParse, varsText,
                         varsXref, varsZip, varsBox, varsCover, varsHook,
                         varsQueue, varsAuth, varsGs, varsSpan, varsBg,
                         varsContent>>

\* The number of check_rate_limit calls and the last tick of the clock.
NCalls == 3
MaxTime == 2

\* extract_client_key (rate_limit.rs 85-99): the keys requests come with.
ClientKeys == {"api:k1", "anonymous"}

\* RateLimiter::new (rate_limit.rs 26-33); the window lasts two ticks.
LimiterConfigs == [max_requests : {1, 2}, window : {2}]

\* The variant of the write lock that is handed to every caller at once.
LockFreeMutShared(lock) == TRUE

\* self.entries.write().await (rate_limit.rs 36): the RwLock is handed to
\* one writer at a time.
LockFree(lock) == lock = 0

\* The variant of the body that compares the count with `<=`.
CheckEntryMutOneMore(entries, key, now, limiter) ==
    IF key \in DOMAIN entries
    THEN LET entry == entries[key]
         IN  IF now - entry.window_start >= limiter.window
             THEN [allowed |-> TRUE, entry |-> [count |-> 1, window_start |-> now]]
             ELSE IF entry.count <= limiter.max_requests
             THEN [allowed |-> TRUE,
                   entry |-> [entry EXCEPT !.count = entry.count + 1]]
             ELSE [allowed |-> FALSE, entry |-> entry]
    ELSE [allowed |-> TRUE, entry |-> [count |-> 1, window_start |-> now]]

\* The body of check_rate_limit (rate_limit.rs 37-56) on the entry it finds:
\* what it returns and the entry it leaves.
CheckEntry(entries, key, now, limiter) ==
    IF key \in DOMAIN entries
    THEN LET entry == entries[key]
         IN  IF now - entry.window_start >= limiter.window
             THEN [allowed |-> TRUE, entry |-> [count |-> 1, window_start |-> now]]
             ELSE IF entry.count < limiter.max_requests
             THEN [allowed |-> TRUE,
                   entry |-> [entry EXCEPT !.count = entry.count + 1]]
             ELSE [allowed |-> FALSE, entry |-> entry]
    ELSE [allowed |-> TRUE, entry |-> [count |-> 1, window_start |-> now]]

\* entries.insert / the write through get_mut (rate_limit.rs 39-54).
PutEntry(entries, key, entry) ==
    [k \in DOMAIN entries \cup {key} |-> IF k = key THEN entry ELSE entries[k]]

\* RateLimiter::new and the requests about to call it.
InitLimit ==
    /\ rl_config \in LimiterConfigs
    /\ rl_now = 0
    /\ rl_entries = <<>>
    /\ rl_lock = 0
    /\ rl_calls \in [1..NCalls -> [key : ClientKeys, pc : {"start"}, now : {0},
                                   check : {<<>>}]]
    /\ rl_log = <<>>

\* Time passes.
Tick ==
    /\ rl_now < MaxTime
    /\ rl_now' = rl_now + 1
    /\ UNCHANGED <<rl_config, rl_entries, rl_lock, rl_calls, rl_log>>
    /\ LimitOnly

\* rate_limit.rs 36: the call gets the write lock.
AcquireWrite ==
    /\ \E c \in DOMAIN rl_calls :
        /\ rl_calls[c].pc = "start"
        /\ LockFree(rl_lock)
        /\ rl_lock' = c
        /\ rl_calls' = [rl_calls EXCEPT ![c].pc = "locked"]
    /\ UNCHANGED <<rl_config, rl_now, rl_entries, rl_log>>
    /\ LimitOnly

\* rate_limit.rs 37-48: Instant::now(), the lookup and the decision.
ReadEntry ==
    /\ \E c \in DOMAIN rl_calls :
        /\ rl_calls[c].pc = "locked"
        /\ rl_calls' = [rl_calls EXCEPT
               ![c].pc = "decided",
               ![c].now = rl_now,
               ![c].check = CheckEntry(rl_entries, rl_calls[c].key, rl_now, rl_config)]
    /\ UNCHANGED <<rl_config, rl_now, rl_entries, rl_lock, rl_log>>
    /\ LimitOnly

\* rate_limit.rs 40-55: the entry is written, the guard dropped and the
\* decision returned.
WriteEntry ==
    /\ \E c \in DOMAIN rl_calls :
        LET call == rl_calls[c]
        IN  /\ call.pc = "decided"
            /\ rl_entries' = PutEntry(rl_entries, call.key, call.check.entry)
            /\ rl_lock' = 0
            /\ rl_calls' = [rl_calls EXCEPT ![c].pc = "done"]
            /\ rl_log' = Append(rl_log, [key |-> call.key, at |-> call.now,
                                         allowed |-> call.check.allowed])
    /\ UNCHANGED <<rl_config, rl_now>>
    /\ LimitOnly

NextLimit ==
    \/ Tick
    \/ AcquireWrite
    \/ ReadEntry
    \/ WriteEntry

InitSpecLimit ==
    /\ InitLimit
    /\ IdleConvert
    /\ IdleDeref
    /\ IdleTree
    /\ IdleXObj
    /\ IdleRender
    /\ IdleRange
    /\ IdleParse
    /\ IdleText
    /\ IdleXref
    /\ IdleZip
    /\ IdleBox
    /\ IdleCover
    /\ IdleHook
    /\ IdleQueue
    /\ IdleAuth
    /\ IdleGs
    /\ IdleSpan
    /\ IdleBg
    /\ IdleContent

SpecLimit == InitSpecLimit /\ [][NextLimit]_vars

\* The start of the window that the i-th returned call falls into: the time
\* of the first call of its key, or of the first call of that key made once
\* the window before had elapsed.
RECURSIVE WindowStart(_)
WindowStart(i) ==
    LET before == {j \in 1..(i - 1) : rl_log[j].key = rl_log[i].key}
    IN  IF before = {} THEN rl_log[i].at
        ELSE LET last == CHOOSE j \in before : \A k \in before : k <= j
             IN  IF rl_log[i].at - WindowStart(last) >= rl_config.window
                 THEN rl_log[i].at
                 ELSE WindowStart(last)

\* The calls of the key of call i that were allowed before it in its window.
AllowedBefore(i) ==
    {j \in 1..(i - 1) : /\ rl_log[j].key = rl_log[i].key
                        /\ rl_log[j].allowed
                        /\ WindowStart(j) = WindowStart(i)}

AllowedInWindow(i) ==
    {j \in DOMAIN rl_log : /\ rl_log[j].key = rl_log[i].key
                           /\ rl_log[j].allowed
                           /\ WindowStart(j) = WindowStart(i)}

\* A step changes the entry of a key only by returning from a call made
\* with that key.
OwnKeyOnly ==
    \A k \in DOMAIN rl_entries' :
        (k \notin DOMAIN rl_entries \/ rl_entries'[k] # rl_entries[k]) =>
            \E c \in DOMAIN rl_calls :
                /\ rl_calls[c].key = k
                /\ rl_calls[c].pc = "decided"
                /\ rl_calls'[c].pc = "done"

----------------------------------------------------------------------------
(* API keys: api_key_middleware (ode-api auth.rs) next to                  *)
(* Database::revoke_api_key (db.rs).                                       *)

AuthOnly == UNCHANGED <<varsConvert, varsDeref, varsTree, varsXObj,
                        varsRender, varsRange, varsParse, varsText, varsXref,
                        varsZip, varsBox, varsCover, varsHook, varsQueue,
                        varsLimit, varsGs, varsSpan, varsBg, varsContent>>

\* The number of requests.
NRequests == 2

\* The ids of the rows of table api_keys.
KeyIds == {1, 2}

\* The X-API-Key header of a request: absent, or a key; key i is the one
\* whose Argon2 hash row i holds, key 0 is in no row.
ApiKeyHeaders == [present : BOOLEAN, key : KeyIds \cup {0}]

\* AuthService::verify_api_key (auth.rs 100-108) under unwrap_or(false).
VerifyApiKey(provided_key, key_id) == provided_key = key_id

\* The variant of revoke_api_key whose UPDATE changes no row.
RevokeMutNoUpdate(keys, key_id) == keys

\* Database::revoke_api_key (db.rs 512-519): UPDATE ... SET is_active = false.
Revoke(keys, key_id) ==
    [id \in DOMAIN keys |->
        IF id = key_id THEN [keys[id] EXCEPT !.is_active = FALSE] ELSE keys[id]]

\* The ids of a set, highest first.
RECURSIVE Descending(_)
Descending(ids) ==
    IF ids = {} THEN <<>>
    ELSE LET top == CHOOSE i \in ids : \A j \in ids : j <= i
         IN  <<top>> \o Descending(ids \ {top})

\* Database::list_all_active_api_keys (db.rs 531-539): WHERE is_active =
\* true ORDER BY created_at DESC; rows are created in the order of their ids.
ListAllActiveApiKeys(keys) ==
    Descending({id \in DOMAIN keys : keys[id].is_active})

\* SELECT user_id FROM api_keys WHERE id = $1 AND is_active = true
\* (auth.rs 238-247).
ActiveUserOf(keys, key_id) ==
    IF key_id \in DOMAIN keys /\ keys[key_id].is_active
    THEN [found |-> TRUE, user_id |-> key_id]
    ELSE [found |-> FALSE, user_id |-> 0]

\* The table as the service finds it, and requests not yet received.
InitAuth ==
    /\ auth_keys \in [KeyIds -> [is_active : BOOLEAN]]
    /\ auth_revoked = {id \in DOMAIN auth_keys : ~auth_keys[id].is_active}
    /\ auth_reqs = [r \in 1..NRequests |->
                       [pc |-> "start", header |-> [present |-> FALSE, key |-> 0],
                        revoked_before |-> {}, db_keys |-> <<>>, result |-> "none"]]

\* DELETE /auth/api-keys/:key_id (auth_routes.rs 296-309).
RevokeApiKey ==
    /\ \E key_id \in DOMAIN auth_keys :
        /\ auth_keys' = Revoke(auth_keys, key_id)
        /\ auth_revoked' = auth_revoked \cup {key_id}
    /\ UNCHANGED auth_reqs
    /\ AuthOnly

\* auth.rs 218-226: the header is read; without it the answer is 401.
ReadHeader ==
    /\ \E r \in DOMAIN auth_reqs, header \in ApiKeyHeaders :
        /\ auth_reqs[r].pc = "start"
        /\ auth_reqs' = [auth_reqs EXCEPT ![r] =
               [@ EXCEPT !.header = header,
                         !.revoked_before = auth_revoked,
                         !.pc = IF header.present THEN "list" ELSE "done",
                         !.result = IF header.present THEN "none" ELSE "401"]]
    /\ UNCHANGED <<auth_keys, auth_revoked>>
    /\ AuthOnly

\* auth.rs 228-232: list_all_active_api_keys, or 500 when the query fails.
ListKeys ==
    /\ \E r \in DOMAIN auth_reqs, query_ok \in BOOLEAN :
        /\ auth_reqs[r].pc = "list"
        /\ auth_reqs' = [auth_reqs EXCEPT ![r] =
               IF query_ok
               THEN [@ EXCEPT !.db_keys = ListAllActiveApiKeys(auth_keys),
                              !.pc = "loop"]
               ELSE [@ EXCEPT !.pc = "done", !.result = "500"]]
    /\ UNCHANGED <<auth_keys, auth_revoked>>
    /\ AuthOnly

\* One round of `for key_info in db_keys` (auth.rs 234-262): the key is
\* verified against the hash, the row looked up again, the user fetched and
\* the request handed to next.run.
CheckKeyInfo ==
    /\ \E r \in DOMAIN auth_reqs, query_ok \in BOOLEAN, user_found \in BOOLEAN :
        LET req    == auth_reqs[r]
            key_id == Head(req.db_keys)
            row    == ActiveUserOf(auth_keys, key_id)
            rest   == [req EXCEPT !.db_keys = Tail(req.db_keys)]
        IN  /\ req.pc = "loop"
            /\ req.db_keys # <<>>
            /\ auth_reqs' = [auth_reqs EXCEPT ![r] =
                   IF ~VerifyApiKey(req.header.key, key_id) THEN rest
                   ELSE IF ~query_ok
                   THEN [req EXCEPT !.pc = "done", !.result = "500"]
                   ELSE IF row.found /\ user_found
                   THEN [req EXCEPT !.pc = "done", !.result = "handler"]
                   ELSE rest]
    /\ UNCHANGED <<auth_keys, auth_revoked>>
    /\ AuthOnly

\* auth.rs 264-265: no row accepted the key.
RejectKey ==
    /\ \E r \in DOMAIN auth_reqs :
        /\ auth_reqs[r].pc = "loop"
        /\ auth_reqs[r].db_keys = <<>>
        /\ auth_reqs' = [auth_reqs EXCEPT ![r] =
               [@ EXCEPT !.pc = "done", !.result = "401"]]
    /\ UNCHANGED <<auth_keys, auth_revoked>>
    /\ AuthOnly

NextAuth ==
    \/ RevokeApiKey
    \/ ReadHeader
    \/ ListKeys
    \/ CheckKeyInfo
    \/ RejectKey

InitSpecAuth ==
    /\ InitAuth
    /\ IdleConvert
    /\ IdleDeref
    /\ IdleTree
    /\ IdleXObj
    /\ IdleRender
    /\ IdleRange
    /\ IdleParse
    /\ IdleText
    /\ IdleXref
    /\ IdleZip
    /\ IdleBox
    /\ IdleCover
    /\ IdleHook
    /\ IdleQueue
    /\ IdleLimit
    /\ IdleGs
    /\ IdleSpan
    /\ IdleBg
    /\ IdleContent

SpecAuth == InitSpecAuth /\ [][NextAuth]_vars

\* The request came with a key that had been revoked before it arrived.
PresentsRevoked(req) ==
    /\ req.header.present
    /\ req.header.key \in req.revoked_before

----------------------------------------------------------------------------
(* The graphics state under q and Q: the interpreter loop of               *)
(* render_pdf_page (renderer/mod.rs 220-428) with the operators that       *)
(* write a field of the state.  A matrix is held as its translation        *)
(* <<e, f>>: the operands used here are translations, whose product adds.  *)

GsOnly == UNCHANGED <<varsConvert, varsDeref, varsTree, varsXObj, varsRender,
                      varsRange, varsParse, varsText, varsXref, varsZip,
                      varsBox, varsCover, varsHook, varsQueue, varsLimit,
                      varsAuth, varsSpan, varsBg, varsContent>>

\* The longest content stream, in operators.
MaxGsOps == 4

\* GraphicsState::new (state.rs 44-56); font_info is "None" or "Some".
NewGraphicsState ==
    [font_info |-> "None", font_size |-> 12, fill_color |-> <<0, 0, 0>>,
     stroke_color |-> <<0, 0, 0>>, letter_space |-> 0, word_space |-> 0]

\* TransformMatrix::identity and the product of two translations.
IdentityMatrix == <<0, 0>>
Translations == {<<10, 0>>, <<0, 20>>}
MatMul(m, n) == <<m[1] + n[1], m[2] + n[2]>>

\* Operand menus.
FontSizes == {10, 14}
FontNames == {"F1", "F2"}
Colors == {<<255, 0, 0>>, <<0, 0, 255>>}
Spacings == {1, 2}

\* renderer/mod.rs 217-221: the locals of render_pdf_page.
InitGs ==
    /\ gs_state = NewGraphicsState
    /\ gs_ctm = IdentityMatrix
    /\ gs_text_matrix = IdentityMatrix
    /\ gs_font_name = "None"
    /\ gs_stack = <<>>
    /\ gs_count = 0
    /\ gs_marks = <<>>
    /\ gs_restored = <<>>

\* Every field the interpreter keeps, by name.
AllFields ==
    [graphics_state |-> gs_state, ctm |-> gs_ctm,
     text_matrix |-> gs_text_matrix, font_name |-> gs_font_name]

\* What an operator other than q and Q leaves alone besides its own field.
GsStep ==
    /\ gs_count < MaxGsOps
    /\ gs_count' = gs_count + 1
    /\ UNCHANGED <<gs_stack, gs_marks, gs_restored>>
    /\ GsOnly

\* ContentOp::GsSave (mod.rs 228-230).
GsPush ==
    /\ gs_count < MaxGsOps
    /\ gs_count' = gs_count + 1
    /\ gs_stack' = Append(gs_stack, <<gs_ctm, gs_state, gs_font_name>>)
    /\ gs_marks' = Append(gs_marks, AllFields)
    /\ UNCHANGED <<gs_state, gs_ctm, gs_text_matrix, gs_font_name, gs_restored>>
    /\ GsOnly

\* ContentOp::GsRestore (mod.rs 231-237) with a saved state to pop.
GsPop ==
    /\ gs_count < MaxGsOps
    /\ gs_stack # <<>>
    /\ gs_count' = gs_count + 1
    /\ LET saved == gs_stack[Len(gs_stack)]
       IN  /\ gs_ctm' = saved[1]
           /\ gs_state' = saved[2]
           /\ gs_font_name' = saved[3]
    /\ gs_stack' = SubSeq(gs_stack, 1, Len(gs_stack) - 1)
    /\ gs_marks' = SubSeq(gs_marks, 1, Len(gs_marks) - 1)
    /\ UNCHANGED gs_text_matrix
    /\ gs_restored' = [got  |-> [graphics_state |-> gs_state', ctm |-> gs_ctm',
                                 text_matrix |-> gs_text_matrix',
                                 font_name |-> gs_font_name'],
                       want |-> gs_marks[Len(gs_marks)]]
    /\ GsOnly

\* ContentOp::GsRestore (mod.rs 231-237) on an empty stack: nothing to pop.
GsPopEmpty ==
    /\ gs_count < MaxGsOps
    /\ gs_stack = <<>>
    /\ gs_count' = gs_count + 1
    /\ UNCHANGED <<gs_state, gs_ctm, gs_text_matrix, gs_font_name, gs_stack,
                   gs_marks, gs_restored>>
    /\ GsOnly

\* ContentOp::CM (mod.rs 238-251).
GsCM ==
    /\ \E matrix \in Translations : gs_ctm' = MatMul(gs_ctm, matrix)
    /\ UNCHANGED <<gs_state, gs_text_matrix, gs_font_name>>
    /\ GsStep

\* ContentOp::BT (mod.rs 252-255).
GsBT ==
    /\ gs_text_matrix' = IdentityMatrix
    /\ UNCHANGED <<gs_state, gs_ctm, gs_font_name>>
    /\ GsStep

\* ContentOp::Tf (mod.rs 259-282).
GsTf ==
    /\ \E font_size \in FontSizes, name \in FontNames :
        /\ gs_state' = [gs_state EXCEPT !.font_size = font_size,
                                        !.font_info = "Some"]
        /\ gs_font_name' = name
    /\ UNCHANGED <<gs_ctm, gs_text_matrix>>
    /\ GsStep

\* ContentOp::Tm (mod.rs 283-294).
GsTm ==
    /\ \E matrix \in Translations : gs_text_matrix' = matrix
    /\ UNCHANGED <<gs_state, gs_ctm, gs_font_name>>
    /\ GsStep

\* ContentOp::Td and ContentOp::TD (mod.rs 295-310).
GsTd ==
    /\ \E offset \in Translations : gs_text_matrix' = MatMul(gs_text_matrix, offset)
    /\ UNCHANGED <<gs_state, gs_ctm, gs_font_name>>
    /\ GsStep

\* ContentOp::Tc and ContentOp::Tw (mod.rs 357-366).
GsSpacing ==
    /\ \E space \in Spacings :
        \/ gs_state' = [gs_state EXCEPT !.letter_space = space]
        \/ gs_state' = [gs_state EXCEPT !.word_space = space]
    /\ UNCHANGED <<gs_ctm, gs_text_matrix, gs_font_name>>
    /\ GsStep

\* ContentOp::RGfill and ContentOp::RG (mod.rs 381-396).
GsColor ==
    /\ \E color \in Colors :
        \/ gs_state' = [gs_state EXCEPT !.fill_color = color]
        \/ gs_state' = [gs_state EXCEPT !.stroke_color = color]
    /\ UNCHANGED <<gs_ctm, gs_text_matrix, gs_font_name>>
    /\ GsStep

NextGs ==
    \/ GsPush
    \/ GsPop
    \/ GsPopEmpty
    \/ GsCM
    \/ GsBT
    \/ GsTf
    \/ GsTm
    \/ GsTd
    \/ GsSpacing
    \/ GsColor

InitSpecGs ==
    /\ InitGs
    /\ IdleConvert
    /\ IdleDeref
    /\ IdleTree
    /\ IdleXObj
    /\ IdleRender
    /\ IdleRange
    /\ IdleParse
    /\ IdleText
    /\ IdleXref
    /\ IdleZip
    /\ IdleBox
    /\ IdleCover
    /\ IdleHook
    /\ IdleQueue
    /\ IdleLimit
    /\ IdleAuth
    /\ IdleSpan
    /\ IdleBg
    /\ IdleContent

SpecGs == InitSpecGs /\ [][NextGs]_vars

\* C26: after a Q every field of the graphics state (font and font size,
\* colours, spacing, text matrix, CTM) has the value it had at the matching
\* q, whatever ran in between and however the pairs nest.
C26_RestoreAll ==
    gs_restored # <<>> => gs_restored.got = gs_restored.want

----------------------------------------------------------------------------
(* Span merging: TextExtractor::update_state and add_text (renderer/       *)
(* text.rs) under the Tf, rg, Tm and Tj operators of one text object.      *)
(* Lengths are in ten-thousandths of a point.                              *)

SpanOnly == UNCHANGED <<varsConvert, varsDeref, varsTree, varsXObj,
                        varsRender, varsRange, varsParse, varsText, varsXref,
                        varsZip, varsBox, varsCover, varsHook, varsQueue,
                        varsLimit, varsAuth, varsGs, varsBg, varsContent>>

\* The longest text object, in operators.
MaxSpanOps == 4

\* Operand menus: Tf with a font and a size of 10, 10.01 or 12; rg; and Tm
\* to a point 0, 19 or 20 to the right and 0, 0.4 or 0.5 above.
TfOperands ==
    {[name |-> "F1", size |-> 100000], [name |-> "F2", size |-> 100000],
     [name |-> "F1", size |-> 100100], [name |-> "F1", size |-> 120000]}
RgOperands == {<<255, 0, 0>>, <<0, 0, 0>>}
TmOperands ==
    {<<0, 0>>, <<190000, 0>>, <<200000, 0>>, <<0, 4000>>, <<0, 5000>>}

\* Page height 792.
PageHeight == 7920000

Abs(x) == IF x < 0 THEN -x ELSE x

\* TextExtractor::state_changed (text.rs 149-161).
StateChanged(extractor, new_state) ==
    IF extractor.current_segment = <<>> THEN FALSE
    ELSE \/ extractor.current_state.font_info # new_state.font_info
         \/ extractor.current_state.fill_color # new_state.fill_color
         \/ Abs(extractor.current_state.font_size - new_state.font_size) > 100

\* TextExtractor::finalize_segment (text.rs 102-114): the segment is closed.
CloseSegment(extractor) == [extractor EXCEPT !.current_segment = <<>>]

\* TextExtractor::update_state (text.rs 49-54).
UpdateExtractorState(extractor, state) ==
    [(IF StateChanged(extractor, state) THEN CloseSegment(extractor) ELSE extractor)
        EXCEPT !.current_state = state]

\* TextExtractor::add_text (text.rs 56-100) for a text that is not empty;
\* emission is the number of the Tj, and a segment is known by the number
\* of the Tj that opened it.
AddTextAt(extractor, emission, x, y) ==
    LET font_size == extractor.current_state.font_size
        position_diff ==
            IF extractor.last_position # <<>>
            THEN <<Abs(x - extractor.last_position[1]),
                   Abs(y - extractor.last_position[2])>>
            ELSE <<x, y>>
        is_same_line == position_diff[2] < 5000
        is_continuation == position_diff[1] < font_size * 2 /\ is_same_line
    IN  [(IF extractor.current_segment # <<>> /\ is_continuation
          THEN extractor
          ELSE [extractor EXCEPT !.current_segment = <<emission>>])
            EXCEPT !.last_position = <<x, y>>]

\* renderer/mod.rs 214-221 and TextExtractor::new (text.rs 40-47).
InitSpan ==
    /\ span_gs = [font_name |-> "None", font_info |-> "None", font_size |-> 120000,
                  fill_color |-> <<0, 0, 0>>, text_matrix |-> <<0, 0>>]
    /\ span_extractor =
           [current_segment |-> <<>>, last_position |-> <<>>,
            current_state |-> [font_info |-> "None", font_size |-> 120000,
                               fill_color |-> <<0, 0, 0>>]]
    /\ span_count = 0
    /\ span_emitted = <<>>

\* ContentOp::Tf (mod.rs 259-282): the size and the name are taken; font_info
\* becomes the one fixed FontInfo with id 0 whatever the font is.
SpanTf ==
    /\ span_count < MaxSpanOps
    /\ \E tf \in TfOperands :
        span_gs' = [span_gs EXCEPT !.font_size = tf.size, !.font_name = tf.name,
                                   !.font_info = "Some_id0"]
    /\ span_count' = span_count + 1
    /\ UNCHANGED <<span_extractor, span_emitted>>
    /\ SpanOnly

\* ContentOp::RGfill (mod.rs 381-388).
SpanRg ==
    /\ span_count < MaxSpanOps
    /\ \E color \in RgOperands : span_gs' = [span_gs EXCEPT !.fill_color = color]
    /\ span_count' = span_count + 1
    /\ UNCHANGED <<span_extractor, span_emitted>>
    /\ SpanOnly

\* ContentOp::Tm (mod.rs 283-294).
SpanTm ==
    /\ span_count < MaxSpanOps
    /\ \E matrix \in TmOperands : span_gs' = [span_gs EXCEPT !.text_matrix = matrix]
    /\ span_count' = span_count + 1
    /\ UNCHANGED <<span_extractor, span_emitted>>
    /\ SpanOnly

\* ContentOp::Tj | ContentOp::TJ (mod.rs 311-356) with the identity CTM:
\* the page position, html_y, update_state and add_text.
SpanTj ==
    /\ span_count < MaxSpanOps
    /\ LET page_x == span_gs.text_matrix[1]
           page_y == span_gs.text_matrix[2]
           effective_font_size == span_gs.font_size
           html_y == PageHeight - page_y - (effective_font_size * 85) \div 100
           state_for_text == [font_info  |-> span_gs.font_info,
                              font_size  |-> effective_font_size,
                              fill_color |-> span_gs.fill_color]
           emission == Len(span_emitted) + 1
           extractor == AddTextAt(UpdateExtractorState(span_extractor, state_for_text),
                                  emission, page_x, html_y)
       IN  /\ span_extractor' = extractor
           /\ span_emitted' = Append(span_emitted,
                  [x |-> page_x, y |-> page_y, font |-> span_gs.font_name,
                   size |-> span_gs.font_size, color |-> span_gs.fill_color,
                   segment |-> extractor.current_segment[1]])
    /\ span_count' = span_count + 1
    /\ UNCHANGED span_gs
    /\ SpanOnly

NextSpan ==
    \/ SpanTf
    \/ SpanRg
    \/ SpanTm
    \/ SpanTj

InitSpecSpan ==
    /\ InitSpan
    /\ IdleConvert
    /\ IdleDeref
    /\ IdleTree
    /\ IdleXObj
    /\ IdleRender
    /\ IdleRange
    /\ IdleParse
    /\ IdleText
    /\ IdleXref
    /\ IdleZip
    /\ IdleBox
    /\ IdleCover
    /\ IdleHook
    /\ IdleQueue
    /\ IdleLimit
    /\ IdleAuth
    /\ IdleGs
    /\ IdleBg
    /\ IdleContent

SpecSpan == InitSpecSpan /\ [][NextSpan]_vars

\* Two emissions are on one baseline, less than 2 * font_size apart, and of
\* one font, fill colour and size (within 0.01).
Mergeable(first, second) ==
    /\ Abs(second.y - first.y) < 5000
    /\ Abs(second.x - first.x) < 2 * second.size
    /\ second.font = first.font
    /\ second.color = first.color
    /\ Abs(second.size - first.size) <= 100

\* C27: two consecutive text emissions are in the same span exactly when
\* they are on the same baseline (|dy| < 0.5), less than 2 * font_size apart
\* horizontally, and of the same font, fill colour and size (within 0.01).
C27_MergeExactly ==
    \A i \in 1..(Len(span_emitted) - 1) :
        (span_emitted[i + 1].segment = span_emitted[i].segment)
            <=> Mergeable(span_emitted[i], span_emitted[i + 1])

----------------------------------------------------------------------------
(* Background detection: the RE and F branches of render_pdf_page          *)
(* (renderer/mod.rs 429-448) among text and colour operators.  The page    *)
(* is 612 x 792; a scale factor is held in halves (2 is the identity).     *)

BgOnly == UNCHANGED <<varsConvert, varsDeref, varsTree, varsXObj, varsRender,
                      varsRange, varsParse, varsText, varsXref, varsZip,
                      varsBox, varsCover, varsHook, varsQueue, varsLimit,
                      varsAuth, varsGs, varsSpan, varsContent>>

\* The longest content stream, in operators.
MaxBgOps == 4

\* page.width and page.height (mod.rs 210-211).
PageSize == <<612, 792>>

\* Operand menus: rectangles around nine tenths of the page, twice the page
\* and small; scalings by one half and by two; fill colours.
RectOperands ==
    {<<612, 792>>, <<550, 792>>, <<551, 713>>, <<1224, 1584>>, <<100, 100>>}
ScaleOperands == {1, 4}
FillColors == {<<255, 255, 255>>, <<0, 0, 255>>}

\* mod.rs 440-442: scaled_w >= page_width * 0.9 && scaled_h >= page_height *
\* 0.9, with the scale in halves.
CoversPage(rect, ctm) ==
    /\ rect[1] * ctm[1] * 10 >= PageSize[1] * 9 * 2
    /\ rect[2] * ctm[2] * 10 >= PageSize[2] * 9 * 2

\* mod.rs 217-223: the locals of render_pdf_page.
InitBg ==
    /\ bg_fill_color = <<0, 0, 0>>
    /\ bg_ctm = <<2, 2>>
    /\ bg_pending_rect = <<>>
    /\ bg_color = <<>>
    /\ bg_count = 0
    /\ bg_text_shown = FALSE
    /\ bg_fills = <<>>

\* ContentOp::RE (mod.rs 429-434).
BgRE ==
    /\ bg_count < MaxBgOps
    /\ \E rect \in RectOperands : bg_pending_rect' = rect
    /\ bg_count' = bg_count + 1
    /\ UNCHANGED <<bg_fill_color, bg_ctm, bg_color, bg_text_shown, bg_fills>>
    /\ BgOnly

\* ContentOp::F (mod.rs 435-448), the operators f and F.
BgF ==
    /\ bg_count < MaxBgOps
    /\ bg_color' =
           IF /\ bg_color = <<>>
              /\ bg_pending_rect # <<>>
              /\ CoversPage(bg_pending_rect, bg_ctm)
           THEN bg_fill_color
           ELSE bg_color
    /\ bg_pending_rect' = <<>>
    /\ bg_fills' =
           IF bg_pending_rect = <<>> THEN bg_fills
           ELSE Append(bg_fills, [rect |-> bg_pending_rect, ctm |-> bg_ctm,
                                  color |-> bg_fill_color,
                                  after_text |-> bg_text_shown])
    /\ bg_count' = bg_count + 1
    /\ UNCHANGED <<bg_fill_color, bg_ctm, bg_text_shown>>
    /\ BgOnly

\* ContentOp::Tj | ContentOp::TJ (mod.rs 311-356): text is shown; nothing of
\* the background detector is touched.
BgTj ==
    /\ bg_count < MaxBgOps
    /\ bg_text_shown' = TRUE
    /\ bg_count' = bg_count + 1
    /\ UNCHANGED <<bg_fill_color, bg_ctm, bg_pending_rect, bg_color, bg_fills>>
    /\ BgOnly

\* ContentOp::RGfill (mod.rs 381-388).
BgRg ==
    /\ bg_count < MaxBgOps
    /\ \E color \in FillColors : bg_fill_color' = color
    /\ bg_count' = bg_count + 1
    /\ UNCHANGED <<bg_ctm, bg_pending_rect, bg_color, bg_text_shown, bg_fills>>
    /\ BgOnly

\* ContentOp::CM (mod.rs 238-251) with a scaling matrix.
BgCM ==
    /\ bg_count < MaxBgOps
    /\ \E scale \in ScaleOperands :
        bg_ctm' = <<(bg_ctm[1] * scale) \div 2, (bg_ctm[2] * scale) \div 2>>
    /\ bg_ctm' # <<0, 0>>
    /\ bg_count' = bg_count + 1
    /\ UNCHANGED <<bg_fill_color, bg_pending_rect, bg_color, bg_text_shown, bg_fills>>
    /\ BgOnly

NextBg ==
    \/ BgRE
    \/ BgF
    \/ BgTj
    \/ BgRg
    \/ BgCM

InitSpecBg ==
    /\ InitBg
    /\ IdleConvert
    /\ IdleDeref
    /\ IdleTree
    /\ IdleXObj
    /\ IdleRender
    /\ IdleRange
    /\ IdleParse
    /\ IdleText
    /\ IdleXref
    /\ IdleZip
    /\ IdleBox
    /\ IdleCover
    /\ IdleHook
    /\ IdleQueue
    /\ IdleLimit
    /\ IdleAuth
    /\ IdleGs
    /\ IdleSpan
    /\ IdleContent

SpecBg == InitSpecBg /\ [][NextBg]_vars

\* The filled rectangles that are large enough and were painted before any
\* text was shown.
BackgroundFills ==
    {i \in DOMAIN bg_fills : /\ CoversPage(bg_fills[i].rect, bg_fills[i].ctm)
                             /\ ~bg_fills[i].after_text}

\* C28: background_color is the fill colour of the first filled rectangle
\* that covers nine tenths of the page in width and height and was painted
\* before any text; without such a rectangle it stays unset, and no later
\* rectangle changes it.
C28_BackgroundFirstWins ==
    bg_color =
        IF BackgroundFills = {} THEN <<>>
        ELSE bg_fills[CHOOSE i \in BackgroundFills :
                          \A j \in BackgroundFills : i <= j].color

----------------------------------------------------------------------------
(* The content-stream parser: the loop of ContentStreamParser::parse       *)
(* (parser/content_stream.rs 56-125), one token per round.                 *)

ContentOnly == UNCHANGED <<varsConvert, varsDeref, varsTree, varsXObj,
                           varsRender, varsRange, varsParse, varsText,
                           varsXref, varsZip, varsBox, varsCover, varsHook,
                           varsQueue, varsLimit, varsAuth, varsGs, varsSpan,
                           varsBg>>

\* The longest content stream, in tokens.
MaxTokens == 4

\* The operator names ContentOp::from_name knows (renderer/mod.rs 146-195),
\* as far as they are used here.
KnownOperators == {"Tj", "Tf", "Do", "re"}

\* ContentOp::from_name (renderer/mod.rs 146-195): <<>> stands for None.
FromName(name) == IF name \in KnownOperators THEN <<name>> ELSE <<>>

\* The tokens of a content stream: numbers, strings, names and operators;
\* w (line width) and gs (graphics state dictionary) are operators of the
\* PDF format that from_name has no entry for.
Tokens ==
    [kind : {"number"}, value : {1, 2}]
        \cup [kind : {"string"}, value : {"A", "B"}]
        \cup [kind : {"name"}, value : {"F1", "Im1"}]
        \cup [kind : {"operator"}, value : KnownOperators \cup {"w", "gs"}]

\* ContentStreamParser::new (content_stream.rs 36-43).
InitContent ==
    /\ cs_seen = <<>>
    /\ cs_operands = <<>>
    /\ cs_text = <<>>
    /\ cs_font_name = <<>>
    /\ cs_ops = <<>>

\* content_stream.rs 72-74: a number is pushed on self.operands.
ReadOperand ==
    /\ Len(cs_seen) < MaxTokens
    /\ \E token \in Tokens :
        /\ token.kind = "number"
        /\ cs_seen' = Append(cs_seen, token)
        /\ cs_operands' = Append(cs_operands, token.value)
    /\ UNCHANGED <<cs_text, cs_font_name, cs_ops>>
    /\ ContentOnly

\* content_stream.rs 75-87: a literal or hex string replaces self.text.
ReadString ==
    /\ Len(cs_seen) < MaxTokens
    /\ \E token \in Tokens :
        /\ token.kind = "string"
        /\ cs_seen' = Append(cs_seen, token)
        /\ cs_text' = <<token.value>>
    /\ UNCHANGED <<cs_operands, cs_font_name, cs_ops>>
    /\ ContentOnly

\* content_stream.rs 88-100: a name replaces self.current_font_name.
ReadName ==
    /\ Len(cs_seen) < MaxTokens
    /\ \E token \in Tokens :
        /\ token.kind = "name"
        /\ cs_seen' = Append(cs_seen, token)
        /\ cs_font_name' = <<token.value>>
    /\ UNCHANGED <<cs_operands, cs_text, cs_ops>>
    /\ ContentOnly

\* content_stream.rs 101-120: an operator from_name knows is emitted with
\* what was collected, which mem::take and take() then clear; any other
\* operator is passed over and clears nothing.
ReadOperator ==
    /\ Len(cs_seen) < MaxTokens
    /\ \E token \in Tokens :
        /\ token.kind = "operator"
        /\ cs_seen' = Append(cs_seen, token)
        /\ LET operator == FromName(token.value)
               takes_name == operator = <<"Tf">> \/ operator = <<"Do">>
           IN  IF operator # <<>>
               THEN /\ cs_ops' = Append(cs_ops,
                           [operator  |-> operator[1],
                            operands  |-> cs_operands,
                            text      |-> cs_text,
                            font_name |-> IF takes_name THEN cs_font_name ELSE <<>>,
                            token     |-> Len(cs_seen) + 1])
                    /\ cs_operands' = <<>>
                    /\ cs_text' = <<>>
                    /\ cs_font_name' = IF takes_name THEN <<>> ELSE cs_font_name
               ELSE UNCHANGED <<cs_operands, cs_text, cs_font_name, cs_ops>>
    /\ ContentOnly

NextContent ==
    \/ ReadOperand
    \/ ReadString
    \/ ReadName
    \/ ReadOperator

InitSpecContent ==
    /\ InitContent
    /\ IdleConvert
    /\ IdleDeref
    /\ IdleTree
    /\ IdleXObj
    /\ IdleRender
    /\ IdleRange
    /\ IdleParse
    /\ IdleText
    /\ IdleXref
    /\ IdleZip
    /\ IdleBox
    /\ IdleCover
    /\ IdleHook
    /\ IdleQueue
    /\ IdleLimit
    /\ IdleAuth
    /\ IdleGs
    /\ IdleSpan
    /\ IdleBg

SpecContent == InitSpecContent /\ [][NextContent]_vars

\* The index of the last token before `at` that is an operator of one of
\* the given names; 0 when there is none.
LastOperatorBefore(at, names) ==
    LET earlier == {i \in 1..(at - 1) : /\ cs_seen[i].kind = "operator"
                                        /\ cs_seen[i].value \in names}
    IN  IF earlier = {} THEN 0 ELSE CHOOSE i \in earlier : \A j \in earlier : j <= i

\* The values of the tokens of one kind between two positions, in order.
RECURSIVE ValuesBetween(_, _, _)
ValuesBetween(kind, from, to) ==
    IF to <= from + 1 THEN <<>>
    ELSE LET rest == ValuesBetween(kind, from, to - 1)
         IN  IF cs_seen[to - 1].kind = kind
             THEN Append(rest, cs_seen[to - 1].value)
             ELSE rest

\* The last element of a sequence as an option: <<>> or <<value>>.
LastOf(values) == IF values = <<>> THEN <<>> ELSE <<values[Len(values)]>>

\* C29: an emitted operation carries the numbers and the string that stand
\* between the operator before it and its own operator, and the name that
\* stands before it only if it is the next Tf or Do; nothing of an
\* earlier operation comes with it.
C29_NoLeak ==
    \A k \in DOMAIN cs_ops :
        LET op       == cs_ops[k]
            previous == LastOperatorBefore(op.token, {"Tj", "Tf", "Do", "re", "w", "gs"})
            named    == LastOperatorBefore(op.token, {"Tf", "Do"})
        IN  /\ op.operands = ValuesBetween("number", previous, op.token)
            /\ op.text = LastOf(ValuesBetween("string", previous, op.token))
            /\ op.font_name =
                   IF op.operator \in {"Tf", "Do"}
                   THEN LastOf(ValuesBetween("name", named, op.token))
                   ELSE <<>>

====
